---- MODULE Spec2Model ----
(***************************************************************************)
(* Verification model of the dga2025 pipeline: the panel builders          *)
(* (scraping/build_panel_*.py), the CMN compliance flags, the Kitagawa     *)
(* decomposition and its bootstrap, and the scraper with its retry,        *)
(* checkpoint and parallel-launch logic.                                   *)
(*                                                                         *)
(* Each part of the pipeline has its own variables and its own             *)
(* specification (SpecPanel, SpecIndep, ...).  A specification leaves the  *)
(* variables of the other parts at their idle values.                      *)
(***************************************************************************)
EXTENDS Integers, Sequences, FiniteSets, TLC

VARIABLES
    \* ---- panel builders (build_panel_budget_muni, build_panel_t1/_t2, oaxaca build_panel)
    padron,        \* outputs/padron/padron_largo.csv: set of rows [sec_ejec, anio, siga_implementado, categoria]
    raw_dir,       \* outputs/raw/MUNI_<y>.csv and MUNICIPALIDADES_<y>.csv: bag of rows [siga, anio, sec_ejec]
    cmn,           \* outputs/processed/cmn_cumple_v4.parquet: set of rows [sec_ejec, anio, cumple_v4]
    presupuesto,   \* presupuesto_muni_panel.parquet: bag of rows
    groups,        \* build_groups' groups table: set of rows
    panel_t1,      \* panel_t1_muni.parquet: bag of rows
    panel_t2,      \* panel_t2_muni.parquet: bag of rows
    oax_panel,     \* the Oaxaca panel (run_oaxaca_blinder.build_panel): bag of rows
    p_pc,          \* which builder runs next
    \* ---- a second run of the builders on the same roster with other outcome data
    raw_dir_b, cmn_b, panel_t1_b, oax_panel_b,
    \* ---- build_panel_cmn
    fact_cmn_fase, \* dwh_ind1.fact_cmn_fase: set of rows [anio, sec_ejec, fase_codigo, fuente]
    cmn_df,        \* the DataFrame of build_panel_cmn.main: set of rows
    c_pc,
    \* ---- run_oaxaca_blinder: the aggregate decomposition
    ob_panel,      \* the panel passed to aggregate_decomposition: bag of rows [anio, group, cumple_v4]
    ob_agg,        \* the dict aggregate_decomposition returns
    ob_pc,
    ob_multi,      \* the rows multi_year_aggregate returns
    \* ---- run_diagnostics_extras.run_bootstrap_oaxaca: panel, point estimate, replicates, returned dict
    bt_panel, bt_point, bt_boot, bt_out, bt_pc, bt_draw,
    \* ---- run_parallel: arguments, pool processes, the tasks of the years, files written, results
    par_years, par_workers, par_method, par_clock, par_proc, par_pc, par_code, par_ckpt, par_written, par_results, par_ret,
    \* ---- scraper._retry_on_failure: loop index, outcomes of the calls made, delays slept, last_exception, exception raised
    rt_attempt, rt_calls, rt_sleeps, rt_last_exception, rt_raised, rt_pc,
    \* ---- run_scrape.py main and scraper.run_scrape: roster, arguments, CSV and checkpoint files, loop index, log of the run, driver closes, return code
    sc_padron, sc_args, sc_csv, sc_ckpt, sc_i, sc_log, sc_closed, sc_ret, sc_pc,
    \* ---- build_panel_t1.build_groups on its own: roster, groups table
    gr_padron, gr_groups, gr_pc,
    \* ---- utils.normalize_sec_ejec in load_padron_csv and build_index: the cell read, row["sec_ejec"], sec
    nz_value, nz_row, nz_sec, nz_pc,
    \* ---- Scraper.navigate_levels on a list level: limit, loop index, extracted, what happened to each element, errors logged
    nv_limit, nv_i, nv_extracted, nv_trace, nv_errors, nv_pc,
    \* ---- nearest_neighbor_matching (run_did_psm.py)
    mt_df, mt_caliper, mt_i, mt_pairs, mt_used, mt_pc,
    \* ---- run_oaxaca_blinder.main: build_panel, multi_year_aggregate
    my_padron, my_budget, my_cmn, my_panel, my_multi, my_pc

panelVars == <<padron, raw_dir, cmn, presupuesto, groups, panel_t1, panel_t2, oax_panel, p_pc,
               raw_dir_b, cmn_b, panel_t1_b, oax_panel_b>>

cmnVars == <<fact_cmn_fase, cmn_df, c_pc>>

obVars == <<ob_panel, ob_agg, ob_pc, ob_multi>>

bootVars == <<bt_panel, bt_point, bt_boot, bt_out, bt_pc, bt_draw>>

parVars == <<par_years, par_workers, par_method, par_clock, par_proc, par_pc, par_code, par_ckpt, par_written, par_results, par_ret>>

retryVars == <<rt_attempt, rt_calls, rt_sleeps, rt_last_exception, rt_raised, rt_pc>>

scrapeVars == <<sc_padron, sc_args, sc_csv, sc_ckpt, sc_i, sc_log, sc_closed, sc_ret, sc_pc>>

groupsVars == <<gr_padron, gr_groups, gr_pc>>

normVars == <<nz_value, nz_row, nz_sec, nz_pc>>

navVars == <<nv_limit, nv_i, nv_extracted, nv_trace, nv_errors, nv_pc>>

matchVars == <<mt_df, mt_caliper, mt_i, mt_pairs, mt_used, mt_pc>>

multiVars == <<my_padron, my_budget, my_cmn, my_panel, my_multi, my_pc>>

vars == <<panelVars, cmnVars, obVars, bootVars, parVars, retryVars, scrapeVars, groupsVars, normVars, navVars, matchVars, multiVars>>

notPanel == <<cmnVars, obVars, bootVars, parVars, retryVars, scrapeVars, groupsVars, normVars, navVars, matchVars, multiVars>>
notCmn == <<panelVars, obVars, bootVars, parVars, retryVars, scrapeVars, groupsVars, normVars, navVars, matchVars, multiVars>>
notOb == <<panelVars, cmnVars, bootVars, parVars, retryVars, scrapeVars, groupsVars, normVars, navVars, matchVars, multiVars>>
notBoot == <<panelVars, cmnVars, obVars, parVars, retryVars, scrapeVars, groupsVars, normVars, navVars, matchVars, multiVars>>
notPar == <<panelVars, cmnVars, obVars, bootVars, retryVars, scrapeVars, groupsVars, normVars, navVars, matchVars, multiVars>>
notRetry == <<panelVars, cmnVars, obVars, bootVars, parVars, scrapeVars, groupsVars, normVars, navVars, matchVars, multiVars>>
notScrape == <<panelVars, cmnVars, obVars, bootVars, parVars, retryVars, groupsVars, normVars, navVars, matchVars, multiVars>>
notGroups == <<panelVars, cmnVars, obVars, bootVars, parVars, retryVars, scrapeVars, normVars, navVars, matchVars, multiVars>>
notNorm == <<panelVars, cmnVars, obVars, bootVars, parVars, retryVars, scrapeVars, groupsVars, navVars, matchVars, multiVars>>
notNav == <<panelVars, cmnVars, obVars, bootVars, parVars, retryVars, scrapeVars, groupsVars, normVars, matchVars, multiVars>>
notMatch == <<panelVars, cmnVars, obVars, bootVars, parVars, retryVars, scrapeVars, groupsVars, normVars, navVars, multiVars>>
notMulti == <<panelVars, cmnVars, obVars, bootVars, parVars, retryVars, scrapeVars, groupsVars, normVars, navVars, matchVars>>

(***************************************************************************)
(* Tables with repeated rows are bags: functions from a row to the number  *)
(* of times it occurs (>= 1).  Tables the code has passed through          *)
(* drop_duplicates / groupby are sets.                                     *)
(***************************************************************************)
EmptyBag == <<>>

RECURSIVE SumOver(_, _)
SumOver(f, S) == IF S = {} THEN 0
                 ELSE LET x == CHOOSE y \in S : TRUE IN f[x] + SumOver(f, S \ {x})

BagSize(b) == SumOver(b, DOMAIN b)

\* Bags over the row kinds K holding at most n rows in all.
BagsUpTo(K, n) ==
    {b \in UNION {[D -> 1..n] : D \in {E \in SUBSET K : Cardinality(E) <= n}} : BagSize(b) <= n}

\* a missing value: NaN in a text column, NumNaN in a numeric column
NaN == "NaN"
NumNaN == 0 - 1

(***************************************************************************)
(* Bounds of the inputs.                                                   *)
(***************************************************************************)
MaxPadron == 2     \* rows of the two roster tables of the database, in all
MaxRaw == 2        \* rows of the raw budget files, in all

SecEjec == {"101", "102"}
CatMuni == "M. MUNICIPALIDADES"
CatReg == "R. EJECUTORAS DEL GOBIERNO REGIONAL"
Categorias == {CatMuni, CatReg}
\* years the inputs are drawn from; the builders' own year lists are below
InputPreYears == {2024}
InputYears == {2024, 2025}

PADRON_YEARS == {2022, 2023, 2024, 2025}
PRE_YEARS == {2022, 2023, 2024}

(***************************************************************************)
(* padron_export.main: one roster row per (historic row, year with a       *)
(* status), and one row with siga_implementado = "SI" for anio 2025 per    *)
(* row of padron_nov2025.                                                  *)
(***************************************************************************)
HistRows == [sec_ejec : SecEjec, categoria : Categorias, anio : InputPreYears, status : {"SI", "NO"}]
Nov2025Rows == [sec_ejec : SecEjec, categoria : Categorias]

padron_export(hist_rows, rows_2025) ==
    {[sec_ejec |-> h.sec_ejec, anio |-> h.anio, siga_implementado |-> h.status,
      categoria |-> h.categoria] : h \in hist_rows}
    \cup
    {[sec_ejec |-> r.sec_ejec, anio |-> 2025, siga_implementado |-> "SI",
      categoria |-> r.categoria] : r \in rows_2025}

Padrones ==
    {padron_export(hn \cap HistRows, hn \cap Nov2025Rows) :
        hn \in {x \in SUBSET (HistRows \cup Nov2025Rows) : Cardinality(x) <= MaxPadron}}

(***************************************************************************)
(* build_panel_budget_muni.main: the SI file MUNI_<y>.csv of every year    *)
(* and the NO file MUNICIPALIDADES_<y>.csv of the years <= 2024 are loaded *)
(* (load_file) and concatenated; nothing removes repeated keys.            *)
(***************************************************************************)
RawRowKinds ==
    {r \in [siga : {"SI", "NO"}, anio : InputYears, sec_ejec : SecEjec] :
        r.siga = "NO" => r.anio <= 2024}

load_file(r) == [anio |-> r.anio, siga |-> r.siga, sec_ejec |-> r.sec_ejec]

budget_main(raw) ==
    LET rows == {load_file(r) : r \in DOMAIN raw}
    IN [x \in rows |-> SumOver(raw, {r \in DOMAIN raw : load_file(r) = x})]

(***************************************************************************)
(* build_panel_t1.build_groups                                             *)
(***************************************************************************)
muni_of(pad) == {r \in pad : r.categoria = CatMuni /\ r.anio \in PADRON_YEARS}

pre_status_of(S) ==
    IF \E r \in S : r.siga_implementado = "SI" THEN "SI"
    ELSE IF \E r \in S : r.siga_implementado = "NO" THEN "NO"
    ELSE "ABSENT"

\* a label that takes a missing pre-2025 status for a NO
label_absent_as_no(row) ==
    IF row.post_siga = "SI" /\ row.pre_siga = "SI" THEN "ALWAYS_IN"
    ELSE IF row.post_siga = "SI" THEN "SWITCHER"
    ELSE IF row.post_siga = "ABSENT" /\ row.pre_siga = "SI" THEN "EXIT"
    ELSE "OTHER"

label(row) ==
    IF row.post_siga = "SI" /\ row.pre_siga = "SI" THEN "ALWAYS_IN"
    ELSE IF row.post_siga = "SI" /\ row.pre_siga = "NO" THEN "SWITCHER"
    ELSE IF row.post_siga = "SI" /\ row.pre_siga = "ABSENT" THEN "ENTRY_ABSENT"
    ELSE IF row.post_siga = "ABSENT" /\ row.pre_siga = "SI" THEN "EXIT"
    ELSE "OTHER"

\* post: the (sec_ejec, siga_implementado) pairs of 2025, drop_duplicates
post_of(muni) == {[sec_ejec |-> r.sec_ejec, post_siga |-> r.siga_implementado] :
                     r \in {m \in muni : m.anio = 2025}}

\* pre_status without the groupby: one row per distinct (sec_ejec, status)
pre_of_ungrouped(muni) ==
    {[sec_ejec |-> m.sec_ejec, pre_siga |-> m.siga_implementado] :
        m \in {x \in muni : x.anio \in PRE_YEARS}}

\* pre_status: one row per sec_ejec of the 2022-2024 roster (groupby)
pre_of(muni) ==
    LET pre == {m \in muni : m.anio \in PRE_YEARS}
    IN {[sec_ejec |-> s, pre_siga |-> pre_status_of({m \in pre : m.sec_ejec = s})] :
           s \in {m.sec_ejec : m \in pre}}

\* pre_status.merge(post, on="sec_ejec", how="outer"), fillna("ABSENT")
outer_merge(pre_status, post) ==
    {[sec_ejec |-> a.sec_ejec, pre_siga |-> a.pre_siga, post_siga |-> b.post_siga] :
        <<a, b>> \in {ab \in pre_status \X post : ab[1].sec_ejec = ab[2].sec_ejec}}
    \cup
    {[sec_ejec |-> a.sec_ejec, pre_siga |-> a.pre_siga, post_siga |-> "ABSENT"] :
        a \in {x \in pre_status : \A b \in post : b.sec_ejec # x.sec_ejec}}
    \cup
    {[sec_ejec |-> b.sec_ejec, pre_siga |-> "ABSENT", post_siga |-> b.post_siga] :
        b \in {x \in post : \A a \in pre_status : a.sec_ejec # x.sec_ejec}}

build_groups(pad) ==
    LET muni == muni_of(pad)
        merged == outer_merge(pre_of(muni), post_of(muni))
    IN {[sec_ejec |-> g.sec_ejec, pre_siga |-> g.pre_siga, post_siga |-> g.post_siga,
         group_t1 |-> label(g),
         t1_switcher |-> IF label(g) = "SWITCHER" THEN 1 ELSE 0] : g \in merged}

(***************************************************************************)
(* build_panel_t1.build_panel: presupuesto left-merged with the roster's   *)
(* distinct (sec_ejec, anio, siga_implementado) rows on (sec_ejec, anio),  *)
(* then left-merged with the groups table on sec_ejec.  A left row with k  *)
(* matches becomes k rows; a left row with none keeps NaN columns.         *)
(***************************************************************************)
padron_year_t1(muni) ==
    {[sec_ejec |-> m.sec_ejec, anio |-> m.anio, siga_padron |-> m.siga_implementado] : m \in muni}

NoGroup == [pre_siga |-> NaN, post_siga |-> NaN, group_t1 |-> NaN, t1_switcher |-> NumNaN]

t1_row(p, sp, g) ==
    [anio |-> p.anio, siga |-> p.siga, sec_ejec |-> p.sec_ejec,
     siga_padron |-> sp,
     pre_siga |-> g.pre_siga, post_siga |-> g.post_siga,
     group_t1 |-> g.group_t1, t1_switcher |-> g.t1_switcher,
     post_2025 |-> IF p.anio = 2025 THEN 1 ELSE 0,
     t1_post |-> IF g.t1_switcher = 1 /\ p.anio = 2025 THEN 1 ELSE 0]

t1_base(x) == [anio |-> x.anio, siga |-> x.siga, sec_ejec |-> x.sec_ejec]

build_panel_t1(presup, muni, grps) ==
    LET py == padron_year_t1(muni)
        sps(p) == LET m == {y.siga_padron : y \in {z \in py : z.sec_ejec = p.sec_ejec /\ z.anio = p.anio}}
                  IN IF m = {} THEN {NaN} ELSE m
        gs(p) == LET m == {[pre_siga |-> g.pre_siga, post_siga |-> g.post_siga,
                            group_t1 |-> g.group_t1, t1_switcher |-> g.t1_switcher] :
                               g \in {z \in grps : z.sec_ejec = p.sec_ejec}}
                 IN IF m = {} THEN {NoGroup} ELSE m
        rows == UNION {{t1_row(p, sp, g) : <<sp, g>> \in sps(p) \X gs(p)} : p \in DOMAIN presup}
    IN [x \in rows |-> presup[t1_base(x)]]

\* build_panel_t1.main: read_padron, build_groups, build_panel
t1_main(presup, pad) == build_panel_t1(presup, muni_of(pad), build_groups(pad))

(***************************************************************************)
(* build_panel_t2: build_padron_year, build_always_in, build_panel         *)
(***************************************************************************)
build_padron_year(pad) ==
    LET muni == muni_of(pad)
    IN {[sec_ejec |-> k[1], anio |-> k[2],
         s_it |-> IF \E m \in muni : m.sec_ejec = k[1] /\ m.anio = k[2] /\ m.siga_implementado = "SI"
                  THEN 1 ELSE 0] :
           k \in {<<m.sec_ejec, m.anio>> : m \in muni}}

build_always_in(py) ==
    {[sec_ejec |-> s,
      siga_always_in |-> IF \A y \in PADRON_YEARS :
                                \E r \in py : r.sec_ejec = s /\ r.anio = y /\ r.s_it = 1
                         THEN 1 ELSE 0] : s \in {r.sec_ejec : r \in py}}

t2_row(p, py, ai, c) ==
    LET s_it == IF \E r \in py : r.sec_ejec = p.sec_ejec /\ r.anio = p.anio
                THEN (CHOOSE r \in py : r.sec_ejec = p.sec_ejec /\ r.anio = p.anio).s_it
                ELSE NumNaN
        found == \E r \in c : r.sec_ejec = p.sec_ejec /\ r.anio = p.anio
        cumple == IF found
                  THEN (CHOOSE r \in c : r.sec_ejec = p.sec_ejec /\ r.anio = p.anio).cumple_v4
                  ELSE 0
    IN [anio |-> p.anio, siga |-> p.siga, sec_ejec |-> p.sec_ejec,
        s_it |-> s_it,
        siga_always_in |-> IF \E r \in ai : r.sec_ejec = p.sec_ejec
                           THEN (CHOOSE r \in ai : r.sec_ejec = p.sec_ejec).siga_always_in
                           ELSE NumNaN,
        cmn_present |-> IF found THEN 1 ELSE 0,
        cumple_v4 |-> IF s_it = 1 THEN cumple ELSE NumNaN,
        t_it |-> IF s_it = 1 THEN cumple ELSE NumNaN,
        t_it_applicable |-> IF s_it = 1 THEN 1 ELSE 0]

build_panel_t2(presup, c, py, ai) ==
    LET rows == {t2_row(p, py, ai, c) : p \in DOMAIN presup}
    IN [x \in rows |-> presup[t1_base(x)]]

t2_main(presup, c, pad) ==
    build_panel_t2(presup, c, build_padron_year(pad), build_always_in(build_padron_year(pad)))

(***************************************************************************)
(* run_oaxaca_blinder.build_panel: groups from the roster (pre_ues,        *)
(* post_ues, assign_group), budget left-merged with cmn, rows of the       *)
(* groups ALWAYS_IN and ENTRY kept.                                        *)
(***************************************************************************)
pre_ues(pad) == {m.sec_ejec : m \in {r \in muni_of(pad) : r.anio <= 2024 /\ r.siga_implementado = "SI"}}
post_ues(pad) == {m.sec_ejec : m \in {r \in muni_of(pad) : r.anio = 2025}}

assign_group(se, pre, post) ==
    IF se \in pre /\ se \in post THEN "ALWAYS_IN"
    ELSE IF se \notin pre /\ se \in post THEN "ENTRY"
    ELSE IF se \in pre /\ se \notin post THEN "EXIT"
    ELSE "OTHER"

group_map(pad) ==
    [se \in pre_ues(pad) \cup post_ues(pad) |-> assign_group(se, pre_ues(pad), post_ues(pad))]

oax_row(p, c, gm) ==
    [anio |-> p.anio, siga |-> p.siga, sec_ejec |-> p.sec_ejec,
     cumple_v4 |-> IF \E r \in c : r.sec_ejec = p.sec_ejec /\ r.anio = p.anio
                   THEN (CHOOSE r \in c : r.sec_ejec = p.sec_ejec /\ r.anio = p.anio).cumple_v4
                   ELSE 0,
     group |-> IF p.sec_ejec \in DOMAIN gm THEN gm[p.sec_ejec] ELSE NaN]

\* a mis-built panel whose group column looks at the outcome: an entity that
\* complies in 2025 is never counted as ENTRY
oax_row_endogenous(p, c, gm) ==
    LET r == oax_row(p, c, gm)
    IN IF r.group = "ENTRY" /\ r.cumple_v4 = 1 THEN [r EXCEPT !.group = "ALWAYS_IN"] ELSE r

oaxaca_build_panel_endogenous(budget, c, pad) ==
    LET rows == {x \in {oax_row_endogenous(p, c, group_map(pad)) : p \in DOMAIN budget} :
                    x.group \in {"ALWAYS_IN", "ENTRY"}}
    IN [x \in rows |-> budget[t1_base(x)]]

oaxaca_build_panel(budget, c, pad) ==
    LET rows == {x \in {oax_row(p, c, group_map(pad)) : p \in DOMAIN budget} :
                    x.group \in {"ALWAYS_IN", "ENTRY"}}
    IN [x \in rows |-> budget[t1_base(x)]]

(***************************************************************************)
(* The builders as a state machine: each builder is one program run that   *)
(* reads the tables written before it and writes its own.                  *)
(***************************************************************************)
IdlePanel ==
    /\ padron = {} /\ raw_dir = EmptyBag /\ cmn = {} /\ presupuesto = EmptyBag /\ groups = {}
    /\ panel_t1 = EmptyBag /\ panel_t2 = EmptyBag /\ oax_panel = EmptyBag /\ p_pc = "idle"
    /\ raw_dir_b = EmptyBag /\ cmn_b = {} /\ panel_t1_b = EmptyBag /\ oax_panel_b = EmptyBag

IdleCmn == fact_cmn_fase = {} /\ cmn_df = {} /\ c_pc = "idle"

IdleOb == ob_panel = EmptyBag /\ ob_agg = <<>> /\ ob_pc = "idle" /\ ob_multi = <<>>

IdleBoot == bt_panel = {} /\ bt_point = <<>> /\ bt_boot = <<>> /\ bt_out = <<>> /\ bt_pc = "idle" /\ bt_draw = <<>>

IdlePar == par_years = <<>> /\ par_workers = 0 /\ par_method = "idle" /\ par_clock = 0 /\ par_proc = <<>> /\ par_pc = <<>> /\ par_code = <<>> /\ par_ckpt = {} /\ par_written = {} /\ par_results = <<>> /\ par_ret = NumNaN

IdleRetry == rt_attempt = 0 /\ rt_calls = <<>> /\ rt_sleeps = <<>> /\ rt_last_exception = <<>> /\ rt_raised = <<>> /\ rt_pc = "idle"

IdleScrape == sc_padron = {} /\ sc_args = <<>> /\ sc_csv = <<>> /\ sc_ckpt = <<>> /\ sc_i = 0 /\ sc_log = <<>> /\ sc_closed = 0 /\ sc_ret = NumNaN /\ sc_pc = "idle"

IdleGroups == gr_padron = {} /\ gr_groups = {} /\ gr_pc = "idle"

IdleNorm == nz_value = <<>> /\ nz_row = <<>> /\ nz_sec = <<>> /\ nz_pc = "idle"

IdleNav == nv_limit = 0 /\ nv_i = 0 /\ nv_extracted = <<>> /\ nv_trace = <<>> /\ nv_errors = <<>> /\ nv_pc = "idle"

IdleMatch == mt_df = <<>> /\ mt_caliper = 0 /\ mt_i = 0 /\ mt_pairs = <<>> /\ mt_used = {} /\ mt_pc = "idle"

IdleMulti == my_padron = {} /\ my_budget = <<>> /\ my_cmn = {} /\ my_panel = <<>> /\ my_multi = <<>> /\ my_pc = "idle"

\* every part but `part` is idle
IdleExcept(part) ==
    /\ IF part = "panel" THEN TRUE ELSE IdlePanel
    /\ IF part = "cmn" THEN TRUE ELSE IdleCmn
    /\ IF part = "ob" THEN TRUE ELSE IdleOb
    /\ IF part = "boot" THEN TRUE ELSE IdleBoot
    /\ IF part = "par" THEN TRUE ELSE IdlePar
    /\ IF part = "retry" THEN TRUE ELSE IdleRetry
    /\ IF part = "scrape" THEN TRUE ELSE IdleScrape
    /\ IF part = "groups" THEN TRUE ELSE IdleGroups
    /\ IF part = "norm" THEN TRUE ELSE IdleNorm
    /\ IF part = "nav" THEN TRUE ELSE IdleNav
    /\ IF part = "match" THEN TRUE ELSE IdleMatch
    /\ IF part = "multi" THEN TRUE ELSE IdleMulti

CmnKeys == SecEjec \X {2025}
CmnTables ==
    {{[sec_ejec |-> k[1], anio |-> k[2], cumple_v4 |-> IF k \in ones THEN 1 ELSE 0] : k \in CmnKeys} :
        ones \in SUBSET CmnKeys} \cup {{}}

InitPanel ==
    /\ padron \in Padrones
    /\ raw_dir \in BagsUpTo(RawRowKinds, MaxRaw)
    /\ cmn \in CmnTables
    /\ presupuesto = EmptyBag
    /\ groups = {}
    /\ panel_t1 = EmptyBag
    /\ panel_t2 = EmptyBag
    /\ oax_panel = EmptyBag
    /\ p_pc = "budget"
    /\ raw_dir_b = EmptyBag /\ cmn_b = {} /\ panel_t1_b = EmptyBag /\ oax_panel_b = EmptyBag
    /\ IdleExcept("panel")

\* python build_panel_budget_muni.py ("No input files found" when raw_dir is empty)
BuildBudget ==
    /\ p_pc = "budget"
    /\ raw_dir # EmptyBag
    /\ presupuesto' = budget_main(raw_dir)
    /\ p_pc' = "t1"
    /\ UNCHANGED <<padron, raw_dir, cmn, groups, panel_t1, panel_t2, oax_panel,
                   raw_dir_b, cmn_b, panel_t1_b, oax_panel_b>>
    /\ UNCHANGED notPanel

\* python build_panel_t1.py
BuildT1 ==
    /\ p_pc = "t1"
    /\ groups' = build_groups(padron)
    /\ panel_t1' = t1_main(presupuesto, padron)
    /\ p_pc' = "t2"
    /\ UNCHANGED <<padron, raw_dir, cmn, presupuesto, panel_t2, oax_panel,
                   raw_dir_b, cmn_b, panel_t1_b, oax_panel_b>>
    /\ UNCHANGED notPanel

\* python build_panel_t2.py
BuildT2 ==
    /\ p_pc = "t2"
    /\ panel_t2' = t2_main(presupuesto, cmn, padron)
    /\ p_pc' = "oaxaca"
    /\ UNCHANGED <<padron, raw_dir, cmn, presupuesto, groups, panel_t1, oax_panel,
                   raw_dir_b, cmn_b, panel_t1_b, oax_panel_b>>
    /\ UNCHANGED notPanel

\* run_oaxaca_blinder.main, its build_panel
BuildOaxaca ==
    /\ p_pc = "oaxaca"
    /\ oax_panel' = oaxaca_build_panel(presupuesto, cmn, padron)
    /\ p_pc' = "done"
    /\ UNCHANGED <<padron, raw_dir, cmn, presupuesto, groups, panel_t1, panel_t2,
                   raw_dir_b, cmn_b, panel_t1_b, oax_panel_b>>
    /\ UNCHANGED notPanel

NextPanel == BuildBudget \/ BuildT1 \/ BuildT2 \/ BuildOaxaca

SpecPanel == InitPanel /\ [][NextPanel]_vars

(***************************************************************************)
(* Two runs of the builders on one roster with different outcome data      *)
(* (budget files and CMN table).                                           *)
(***************************************************************************)
IndepRaws ==
    {b \in BagsUpTo({r \in RawRowKinds : r.siga = "SI"}, MaxRaw) :
        b # EmptyBag /\ \A r \in DOMAIN b : b[r] = 1}

InitIndep ==
    /\ padron \in Padrones
    /\ raw_dir \in IndepRaws
    /\ cmn \in CmnTables
    /\ raw_dir_b \in {b \in IndepRaws : \A r \in DOMAIN b : r.anio = 2025}
    /\ cmn_b \in CmnTables
    /\ presupuesto = EmptyBag
    /\ groups = {}
    /\ panel_t1 = EmptyBag
    /\ panel_t2 = EmptyBag
    /\ oax_panel = EmptyBag
    /\ panel_t1_b = EmptyBag /\ oax_panel_b = EmptyBag
    /\ p_pc = "budget"
    /\ IdleExcept("panel")

\* the budget, T1 and Oaxaca builders run again on the second data set
RerunBuilders ==
    /\ p_pc = "done"
    /\ panel_t1_b' = t1_main(budget_main(raw_dir_b), padron)
    /\ oax_panel_b' = oaxaca_build_panel(budget_main(raw_dir_b), cmn_b, padron)
    /\ p_pc' = "rerun_done"
    /\ UNCHANGED <<padron, raw_dir, cmn, presupuesto, groups, panel_t1, panel_t2, oax_panel,
                   raw_dir_b, cmn_b>>
    /\ UNCHANGED notPanel

NextIndep == BuildBudget \/ BuildT1 \/ BuildT2 \/ BuildOaxaca \/ RerunBuilders

SpecIndep == InitIndep /\ [][NextIndep]_vars

(***************************************************************************)
(* Properties of the panel builders                                        *)
(***************************************************************************)
KeysUnique(b) ==
    \A r1 \in DOMAIN b :
        /\ b[r1] = 1
        /\ \A r2 \in DOMAIN b : (r1.sec_ejec = r2.sec_ejec /\ r1.anio = r2.anio) => r1 = r2

\* C1 (as claimed): in every panel table written, no two rows share the same
\* (sec_ejec, anio) key.
C1_PanelKeysUnique ==
    /\ p_pc \in {"t1", "t2", "oaxaca", "done"} => KeysUnique(presupuesto)
    /\ p_pc \in {"t2", "oaxaca", "done"} => KeysUnique(panel_t1)
    /\ p_pc \in {"oaxaca", "done"} => KeysUnique(panel_t2)

GroupRowsOf(s) == {g \in groups : g.sec_ejec = s}
T1LabelsOf(panel, s) == {r.group_t1 : r \in {x \in DOMAIN panel : x.sec_ejec = s}}
T1YearsOf(panel, s) == {r.anio : r \in {x \in DOMAIN panel : x.sec_ejec = s}}

\* C2: once build_panel_t1 has run, the groups table holds exactly one row for
\* every municipal entity of the roster, and all rows of panel_t1_muni with the
\* same sec_ejec carry the same group_t1, whatever their year.
C2_OneGroupPerEntity ==
    p_pc \in {"t2", "oaxaca", "done"} =>
        /\ \A s \in {m.sec_ejec : m \in muni_of(padron)} : Cardinality(GroupRowsOf(s)) = 1
        /\ \A s \in SecEjec : Cardinality(T1LabelsOf(panel_t1, s)) <= 1

\* C2 witness: an entity with roster rows before and in 2025 has panel rows in
\* two years, all with its one label.
C2_Witness ==
    /\ p_pc = "done"
    /\ \E s \in SecEjec :
        /\ T1YearsOf(panel_t1, s) = {2024, 2025}
        /\ \E g \in groups : g.sec_ejec = s /\ g.pre_siga # "ABSENT" /\ g.post_siga = "SI"
        /\ T1LabelsOf(panel_t1, s) \subseteq {"ALWAYS_IN", "SWITCHER"}

OaxLabelsOf(panel, s) == {r.group : r \in {x \in DOMAIN panel : x.sec_ejec = s}}
SecsOf(b) == {r.sec_ejec : r \in DOMAIN b}

\* C3: two runs on the same roster with different budget and CMN data give
\* every entity present in both runs the same group label, in panel T1
\* (build_groups) and in the Oaxaca panel (assign_group).
C3_GroupsIndependentOfOutcome ==
    p_pc = "rerun_done" =>
        \A s \in SecsOf(presupuesto) \cap SecsOf(budget_main(raw_dir_b)) :
            /\ T1LabelsOf(panel_t1, s) = T1LabelsOf(panel_t1_b, s)
            /\ OaxLabelsOf(oax_panel, s) = OaxLabelsOf(oax_panel_b, s)

\* C3 witness: an entity labelled in both runs whose compliance differs
\* between the two CMN tables.
C3_Witness ==
    /\ p_pc = "rerun_done"
    /\ \E s \in SecEjec :
        /\ \E r \in DOMAIN oax_panel : r.sec_ejec = s /\ r.anio = 2025 /\ r.cumple_v4 = 1
        /\ \E r \in DOMAIN oax_panel_b : r.sec_ejec = s /\ r.anio = 2025 /\ r.cumple_v4 = 0
        /\ T1LabelsOf(panel_t1, s) # {NaN}
        /\ T1LabelsOf(panel_t1, s) # {}

(***************************************************************************)
(* build_panel_cmn: fetch_cmn_base (one row per (anio, sec_ejec) with the  *)
(* MAX(CASE ...) indicators) and build_flags.                              *)
(***************************************************************************)
Fuentes == {"MEF", "MINEDU"}
Fases == {1, 2, 3}
FactRows == [anio : {2025}, sec_ejec : SecEjec, fase_codigo : Fases, fuente : Fuentes]

\* MAX(CASE WHEN <cond> THEN 1 ELSE 0 END), given the rows of the group that
\* satisfy <cond>
MaxCase(matching) == IF matching # {} THEN 1 ELSE 0

fetch_cmn_base(fact) ==
    {LET g == {r \in fact : r.anio = k[1] /\ r.sec_ejec = k[2]}
         F(n) == {r \in g : r.fase_codigo = n}
         S(f) == {r \in g : r.fuente = f}
     IN [anio |-> k[1], sec_ejec |-> k[2],
         has_f1 |-> MaxCase(F(1)), has_f2 |-> MaxCase(F(2)), has_f3 |-> MaxCase(F(3)),
         has_mef |-> MaxCase(S("MEF")), has_minedu |-> MaxCase(S("MINEDU")),
         has_f1_mef |-> MaxCase(S("MEF") \cap F(1)),
         has_f2_mef |-> MaxCase(S("MEF") \cap F(2)),
         has_f3_mef |-> MaxCase(S("MEF") \cap F(3)),
         has_f1_minedu |-> MaxCase(S("MINEDU") \cap F(1)),
         has_f2_minedu |-> MaxCase(S("MINEDU") \cap F(2)),
         has_f3_minedu |-> MaxCase(S("MINEDU") \cap F(3))] :
        k \in {<<r.anio, r.sec_ejec>> : r \in fact}}

AsInt(b) == IF b THEN 1 ELSE 0

\* a compliance flag that asks for all three phases from one same source
cumple_v4_same_source(r) ==
    AsInt(\/ (r.has_f1_mef = 1 /\ r.has_f2_mef = 1 /\ r.has_f3_mef = 1)
          \/ (r.has_f1_minedu = 1 /\ r.has_f2_minedu = 1 /\ r.has_f3_minedu = 1))

cumple_v4_of(r) == AsInt(r.has_f1 = 1 /\ r.has_f2 = 1 /\ r.has_f3 = 1)

flags_row(r) ==
    LET v4 == cumple_v4_of(r)
        mef == AsInt(r.has_f1_mef = 1 /\ r.has_f2_mef = 1 /\ r.has_f3_mef = 1)
        minedu == AsInt(r.has_f1_minedu = 1 /\ r.has_f2_minedu = 1 /\ r.has_f3_minedu = 1)
    IN [base |-> r, cumple_v4 |-> v4, cumple_mef |-> mef, cumple_minedu |-> minedu,
        cumple_cross |-> AsInt(v4 = 1 /\ mef = 0 /\ minedu = 0)]

build_flags(df) == {flags_row(r) : r \in df}

InitCmn ==
    /\ fact_cmn_fase \in SUBSET FactRows
    /\ cmn_df = {}
    /\ c_pc = "fetch"
    /\ IdleExcept("cmn")

FetchCmnBase ==
    /\ c_pc = "fetch"
    /\ cmn_df' = fetch_cmn_base(fact_cmn_fase)
    /\ c_pc' = "flags"
    /\ UNCHANGED fact_cmn_fase
    /\ UNCHANGED notCmn

BuildFlags ==
    /\ c_pc = "flags"
    /\ cmn_df' = build_flags(cmn_df)
    /\ c_pc' = "done"
    /\ UNCHANGED fact_cmn_fase
    /\ UNCHANGED notCmn

NextCmn == FetchCmnBase \/ BuildFlags

SpecCmn == InitCmn /\ [][NextCmn]_vars

\* C4: for every (anio, sec_ejec) of the CMN base, cumple_v4 is 1 exactly when
\* has_f1 = has_f2 = has_f3 = 1 and 0 otherwise; rows that agree on the three
\* phase indicators agree on cumple_v4 whatever their MEF/MINEDU indicators.
C4_CumpleV4 ==
    c_pc = "done" =>
        /\ \A k \in {<<r.anio, r.sec_ejec>> : r \in fact_cmn_fase} :
              Cardinality({x \in cmn_df : x.base.anio = k[1] /\ x.base.sec_ejec = k[2]}) = 1
        /\ \A x \in cmn_df :
              /\ x.cumple_v4 \in {0, 1}
              /\ x.cumple_v4 = 1 <=> (x.base.has_f1 = 1 /\ x.base.has_f2 = 1 /\ x.base.has_f3 = 1)
        /\ \A x, y \in cmn_df :
              (x.base.has_f1 = y.base.has_f1 /\ x.base.has_f2 = y.base.has_f2
                  /\ x.base.has_f3 = y.base.has_f3) => x.cumple_v4 = y.cumple_v4

\* C4 witness: two entities with the three phases recorded, one wholly by MEF,
\* the other by no single source; both comply.
C4_Witness ==
    /\ c_pc = "done"
    /\ \E x, y \in cmn_df :
        /\ x.cumple_v4 = 1 /\ y.cumple_v4 = 1
        /\ x.cumple_mef = 1
        /\ y.cumple_mef = 0 /\ y.cumple_minedu = 0 /\ y.cumple_cross = 1

(***************************************************************************)
(* Floating-point values are modelled as exact rationals <<num, den>> in   *)
(* lowest terms (den > 0), plus NaN, which every operation propagates and  *)
(* which equals nothing, itself included.  Rounding error is not modelled. *)
(***************************************************************************)
RECURSIVE Gcd(_, _)
Gcd(a, b) == IF b = 0 THEN a ELSE Gcd(b, a % b)

Abs(x) == IF x < 0 THEN 0 - x ELSE x

FNaN == <<0, 0>>
IsNaN(x) == x[2] = 0

Rat(n, d) ==
    IF d = 0 THEN FNaN
    ELSE LET g == Gcd(Abs(n), Abs(d))
             sg == IF d < 0 THEN 0 - 1 ELSE 1
         IN <<(sg * n) \div g, (sg * d) \div g>>

FInt(n) == <<n, 1>>
FAdd(x, y) == IF IsNaN(x) \/ IsNaN(y) THEN FNaN ELSE Rat(x[1] * y[2] + y[1] * x[2], x[2] * y[2])
FNeg(x) == IF IsNaN(x) THEN FNaN ELSE <<0 - x[1], x[2]>>
FSub(x, y) == FAdd(x, FNeg(y))
FMul(x, y) == IF IsNaN(x) \/ IsNaN(y) THEN FNaN ELSE Rat(x[1] * y[1], x[2] * y[2])
\* x / y for y # 0 (0/0 and NaN give NaN)
FDiv(x, y) == IF IsNaN(x) \/ IsNaN(y) THEN FNaN ELSE Rat(x[1] * y[2], x[2] * y[1])
FEq(x, y) == ~IsNaN(x) /\ ~IsNaN(y) /\ x = y
FLeq(x, y) == ~IsNaN(x) /\ ~IsNaN(y) /\ x[1] * y[2] <= y[1] * x[2]

(***************************************************************************)
(* run_oaxaca_blinder.aggregate_decomposition                              *)
(***************************************************************************)
MaxObs == 2    \* rows of the panel per (anio, group, cumple_v4)

ObKinds == [anio : {2024, 2025}, group : {"ALWAYS_IN", "ENTRY"}, cumple_v4 : {0, 1}]

ObPanels ==
    {[k \in {x \in ObKinds : f[x] > 0} |-> f[k]] : f \in [ObKinds -> 0..MaxObs]}

\* panel[(panel.anio == y) & (panel.group == g)]
Sel(panel, y, g) == {r \in DOMAIN panel : r.anio = y /\ r.group = g}
\* len(sub)
LenOf(panel, sub) == SumOver(panel, sub)
\* sub["cumple_v4"].mean(): NaN for an empty selection
MeanOf(panel, sub) ==
    Rat(SumOver(panel, {r \in sub : r.cumple_v4 = 1}), LenOf(panel, sub))

\* n_25 = n_A_25 + n_E_25; the weights n_A_25 / n_25 and n_E_25 / n_25 divide
\* Python ints, so n_25 = 0 raises ZeroDivisionError
agg_n_25(panel) == LenOf(panel, Sel(panel, 2025, "ALWAYS_IN")) + LenOf(panel, Sel(panel, 2025, "ENTRY"))

aggregate_decomposition(panel) ==
    LET a24 == Sel(panel, 2024, "ALWAYS_IN")
        a25 == Sel(panel, 2025, "ALWAYS_IN")
        e25 == Sel(panel, 2025, "ENTRY")
        r_A_24 == MeanOf(panel, a24)
        r_A_25 == MeanOf(panel, a25)
        r_E_25 == IF LenOf(panel, e25) > 0 THEN MeanOf(panel, e25) ELSE FNaN
        n_A_25 == LenOf(panel, a25)
        n_E_25 == LenOf(panel, e25)
        n_25 == agg_n_25(panel)
        w_A == Rat(n_A_25, n_25)
        w_E == Rat(n_E_25, n_25)
        ind_24 == r_A_24
        ind_25 == FAdd(FMul(w_A, r_A_25), FMul(w_E, r_E_25))
        delta_total == FSub(ind_25, ind_24)
        delta_behavior == FMul(w_A, FSub(r_A_25, r_A_24))
        delta_composition == FMul(w_E, FSub(r_E_25, r_A_24))
    IN [r_A_24 |-> r_A_24, r_A_25 |-> r_A_25, r_E_25 |-> r_E_25,
        n_A_24 |-> LenOf(panel, a24), n_A_25 |-> n_A_25, n_E_25 |-> n_E_25, n_25 |-> n_25,
        w_A |-> w_A, w_E |-> w_E, ind_24 |-> ind_24, ind_25 |-> ind_25,
        delta_total_pp |-> FMul(delta_total, FInt(100)),
        delta_behavior_pp |-> FMul(delta_behavior, FInt(100)),
        delta_composition_pp |-> FMul(delta_composition, FInt(100)),
        share_behavior |-> IF delta_total # FInt(0)
                           THEN FDiv(delta_behavior, delta_total) ELSE FNaN,
        share_composition |-> IF delta_total # FInt(0)
                              THEN FDiv(delta_composition, delta_total) ELSE FNaN]

InitOb ==
    /\ ob_panel \in ObPanels
    /\ ob_agg = <<>>
    /\ ob_pc = "aggregate"
    /\ ob_multi = <<>>
    /\ IdleExcept("ob")

\* main: agg = aggregate_decomposition(panel) returns
AggregateDecomposition ==
    /\ ob_pc = "aggregate"
    /\ agg_n_25(ob_panel) # 0
    /\ ob_agg' = aggregate_decomposition(ob_panel)
    /\ ob_pc' = "done"
    /\ UNCHANGED <<ob_panel, ob_multi>>
    /\ UNCHANGED notOb

\* main: aggregate_decomposition(panel) raises (n_A_25 / n_25 with n_25 = 0)
AggregateDecompositionRaises ==
    /\ ob_pc = "aggregate"
    /\ agg_n_25(ob_panel) = 0
    /\ ob_pc' = "raised"
    /\ UNCHANGED <<ob_panel, ob_agg, ob_multi>>
    /\ UNCHANGED notOb

NextOb == AggregateDecomposition \/ AggregateDecompositionRaises

SpecOb == InitOb /\ [][NextOb]_vars

\* C5 (as claimed), on the panels that have ALWAYS_IN rows in 2024 and in 2025:
\* aggregate_decomposition returns components with
\* delta_behavior_pp + delta_composition_pp = delta_total_pp, where
\* delta_total_pp is 100 * (ind_25 - ind_24).
C5_ComponentsSumToTotal ==
    (ob_pc = "done" /\ ob_agg.n_A_24 > 0 /\ ob_agg.n_A_25 > 0) =>
        /\ FEq(FAdd(ob_agg.delta_behavior_pp, ob_agg.delta_composition_pp), ob_agg.delta_total_pp)
        /\ FEq(ob_agg.delta_total_pp, FMul(FSub(ob_agg.ind_25, ob_agg.ind_24), FInt(100)))

(***************************************************************************)
(* run_diagnostics_extras.run_bootstrap_oaxaca                             *)
(* Floats are exact rationals; the se_* entries (np.std) are left out.     *)
(***************************************************************************)
NBoot == 2    \* n_boot, the number of bootstrap replicates (--n-boot)

BootGroups == {"ALWAYS_IN", "SWITCHER"}

BootRows == [sec_ejec : SecEjec, anio : {2024, 2025}, group_t1 : BootGroups, cumple_v4 : {0, 1}]

\* panels with one row per (sec_ejec, anio), one group per entity and rows in both years
BootPanels ==
    {p \in SUBSET BootRows :
        /\ \A r, q \in p : (r.sec_ejec = q.sec_ejec /\ r.anio = q.anio) => r = q
        /\ \A r, q \in p : r.sec_ejec = q.sec_ejec => r.group_t1 = q.group_t1
        /\ \A y \in {2024, 2025} : \E r \in p : r.anio = y}

\* df["cumple_v4"].mean() if len(df) > 0 else 0
boot_mean(df) ==
    IF df = {} THEN FInt(0)
    ELSE Rat(Cardinality({r \in df : r.cumple_v4 = 1}), Cardinality(df))

\* (delta_total, delta_behavior, delta_composition)
oaxaca_aggregate_single(df_24, df_25) ==
    LET ai_24 == {r \in df_24 : r.group_t1 = "ALWAYS_IN"}
        ai_25 == {r \in df_25 : r.group_t1 = "ALWAYS_IN"}
        r_ai_24 == boot_mean(ai_24)
        r_ai_25 == boot_mean(ai_25)
        non_ai_25 == {r \in df_25 : r.group_t1 # "ALWAYS_IN"}
        r_entry_25 == boot_mean(non_ai_25)
        n_ai_25 == Cardinality(ai_25)
        n_entry_25 == Cardinality(non_ai_25)
        n_total_25 == n_ai_25 + n_entry_25
        w_ai == Rat(n_ai_25, n_total_25)
        w_entry == Rat(n_entry_25, n_total_25)
        delta_behavior == FMul(w_ai, FSub(r_ai_25, r_ai_24))
        delta_composition == FMul(w_entry, FSub(r_entry_25, r_ai_24))
        delta_total == FAdd(delta_behavior, delta_composition)
    IN IF n_total_25 = 0 THEN <<FInt(0), FInt(0), FInt(0)>>
       ELSE <<delta_total, delta_behavior, delta_composition>>

\* df["sec_ejec"].unique()
boot_entities(df) == {r.sec_ejec : r \in df}

\* the outcomes of np.random.choice(entities, size=len(entities), replace=True)
random_choice(entities) == [1..Cardinality(entities) -> entities]

\* df[df["sec_ejec"].isin(sample)]
isin(df, sample) == {r \in df : r.sec_ejec \in {sample[i] : i \in DOMAIN sample}}

\* np.sort
RECURSIVE np_sort(_)
np_sort(arr) ==
    IF arr = <<>> THEN <<>>
    ELSE LET i == CHOOSE k \in 1..Len(arr) : \A j \in 1..Len(arr) : FLeq(arr[k], arr[j])
         IN <<arr[i]>> \o np_sort([k \in 1..(Len(arr) - 1) |-> IF k < i THEN arr[k] ELSE arr[k + 1]])

\* the percentile taken from the wrong end of the sorted replicates
percentile_reflected(arr, q) ==
    LET s == np_sort(arr)
        pos == FMul(FDiv(FSub(FInt(100), q), FInt(100)), FInt(Len(s) - 1))
        lo == pos[1] \div pos[2]
        hi == IF lo + 2 <= Len(s) THEN lo + 2 ELSE Len(s)
    IN FAdd(s[lo + 1], FMul(FSub(pos, FInt(lo)), FSub(s[hi], s[lo + 1])))

\* np.percentile(arr, q), linear interpolation between the two nearest ranks
percentile(arr, q) ==
    LET s == np_sort(arr)
        pos == FMul(FDiv(q, FInt(100)), FInt(Len(s) - 1))
        lo == pos[1] \div pos[2]
        hi == IF lo + 2 <= Len(s) THEN lo + 2 ELSE Len(s)
    IN FAdd(s[lo + 1], FMul(FSub(pos, FInt(lo)), FSub(s[hi], s[lo + 1])))

\* ci(arr): (percentile 2.5, percentile 97.5)
ci(arr) == <<percentile(arr, Rat(5, 2)), percentile(arr, Rat(195, 2))>>

\* round(x * 100, 2): to the nearest hundredth, ties to even
round_pp(x) ==
    LET t == FMul(x, FInt(10000))
        fl == t[1] \div t[2]
        twice == 2 * (t[1] - fl * t[2])
        n == IF twice < t[2] THEN fl
             ELSE IF twice > t[2] THEN fl + 1
             ELSE IF fl % 2 = 0 THEN fl ELSE fl + 1
    IN Rat(n, 100)

InitBoot ==
    /\ bt_panel \in BootPanels
    /\ bt_point = <<>>
    /\ bt_boot = <<>>
    /\ bt_out = <<>>
    /\ bt_pc = "point"
    /\ bt_draw = <<>>
    /\ IdleExcept("boot")

df_24 == {r \in bt_panel : r.anio = 2024}
df_25 == {r \in bt_panel : r.anio = 2025}

\* the point estimate and the empty replicate lists
PointEstimate ==
    /\ bt_pc = "point"
    /\ bt_point' = oaxaca_aggregate_single(df_24, df_25)
    /\ bt_boot' = [total |-> <<>>, behavior |-> <<>>, composition |-> <<>>]
    /\ bt_pc' = "loop"
    /\ UNCHANGED <<bt_panel, bt_out, bt_draw>>
    /\ UNCHANGED notBoot

\* one pass of `for _ in range(n_boot)`
Replicate ==
    /\ bt_pc = "loop"
    /\ Len(bt_boot.total) < NBoot
    /\ \E sample_ents_24 \in random_choice(boot_entities(df_24)),
          sample_ents_25 \in random_choice(boot_entities(df_25)) :
          LET boot_24 == isin(df_24, sample_ents_24)
              boot_25 == isin(df_25, sample_ents_25)
              d == oaxaca_aggregate_single(boot_24, boot_25)
          IN /\ bt_boot' = [total |-> Append(bt_boot.total, d[1]),
                            behavior |-> Append(bt_boot.behavior, d[2]),
                            composition |-> Append(bt_boot.composition, d[3])]
             /\ bt_draw' = [sample_ents_24 |-> sample_ents_24, sample_ents_25 |-> sample_ents_25,
                            boot_24 |-> boot_24, boot_25 |-> boot_25]
    /\ UNCHANGED <<bt_panel, bt_point, bt_out, bt_pc>>
    /\ UNCHANGED notBoot

\* the confidence intervals and the returned dict
BootReturn ==
    /\ bt_pc = "loop"
    /\ Len(bt_boot.total) = NBoot
    /\ bt_out' = [delta_total_pp |-> round_pp(bt_point[1]),
                  delta_total_ci95_low |-> round_pp(ci(bt_boot.total)[1]),
                  delta_total_ci95_high |-> round_pp(ci(bt_boot.total)[2]),
                  delta_behavior_pp |-> round_pp(bt_point[2]),
                  delta_behavior_ci95_low |-> round_pp(ci(bt_boot.behavior)[1]),
                  delta_behavior_ci95_high |-> round_pp(ci(bt_boot.behavior)[2]),
                  delta_composition_pp |-> round_pp(bt_point[3]),
                  delta_composition_ci95_low |-> round_pp(ci(bt_boot.composition)[1]),
                  delta_composition_ci95_high |-> round_pp(ci(bt_boot.composition)[2]),
                  n_boot |-> NBoot]
    /\ bt_pc' = "done"
    /\ UNCHANGED <<bt_panel, bt_point, bt_boot, bt_draw>>
    /\ UNCHANGED notBoot

NextBoot == PointEstimate \/ Replicate \/ BootReturn

SpecBoot == InitBoot /\ [][NextBoot]_vars

\* the three reported components: <<point estimate, ci95_low, ci95_high, replicates>>
BootComponents ==
    {<<bt_out.delta_total_pp, bt_out.delta_total_ci95_low, bt_out.delta_total_ci95_high, bt_boot.total>>,
     <<bt_out.delta_behavior_pp, bt_out.delta_behavior_ci95_low, bt_out.delta_behavior_ci95_high,
       bt_boot.behavior>>,
     <<bt_out.delta_composition_pp, bt_out.delta_composition_ci95_low,
       bt_out.delta_composition_ci95_high, bt_boot.composition>>}

\* C6 (as claimed): for each component reported by run_bootstrap_oaxaca the
\* interval [ci95_low, ci95_high] contains the reported point estimate.
C6_IntervalContainsPoint ==
    bt_pc = "done" => \A c \in BootComponents : FLeq(c[2], c[1]) /\ FLeq(c[1], c[3])

\* C6 (amended): for each component ci95_low <= ci95_high, both bounds lie
\* between the smallest and the largest replicate of that component, and the
\* interval is the point estimate itself when every replicate equals it.
C6_IntervalFromReplicates ==
    bt_pc = "done" =>
        \A c \in BootComponents :
            /\ FLeq(c[2], c[3])
            /\ \E i \in 1..NBoot : FLeq(round_pp(c[4][i]), c[2])
            /\ \E i \in 1..NBoot : FLeq(c[3], round_pp(c[4][i]))
            /\ (\A i \in 1..NBoot : round_pp(c[4][i]) = c[1]) => (c[2] = c[1] /\ c[3] = c[1])

\* a returned dict whose replicates differ: the total's interval has ci95_low < ci95_high
C6_Witness ==
    /\ bt_pc = "done"
    /\ bt_out.delta_total_ci95_low # bt_out.delta_total_ci95_high
    /\ FLeq(bt_out.delta_total_ci95_low, bt_out.delta_total_pp)
    /\ FLeq(bt_out.delta_total_pp, bt_out.delta_total_ci95_high)

(***************************************************************************)
(* run_parallel: one pool task per year, each running run_scrape.py for    *)
(* that year in a subprocess.  par_written records who wrote which file:   *)
(* a task index stands for the worker of that task, MainProc for the parent. *)
(***************************************************************************)
MaxClock == 1    \* seconds the clock of the log-file timestamps may advance

ParYears == {2024, 2025}

MainProc == 0

\* the start method of the pool's processes is the platform's
StartMethods == {"fork", "spawn"}

\* LOG_DIR / f"{timestamp}_{name}{suffix}.log"
LogFile(logger_name, year, timestamp) ==
    [kind |-> "log", logger |-> logger_name, year |-> year, ts |-> timestamp]

\* output_dir / f"{route_name}_{year}.csv"
CsvFile(year) == [kind |-> "csv", logger |-> "-", year |-> year, ts |-> 0]

\* CHECKPOINT_DIR / f"checkpoint_{route_name}_{year}.json"
CheckpointFile(year) == [kind |-> "checkpoint", logger |-> "-", year |-> year, ts |-> 0]

Wrote(by, files) == {[file |-> f, by |-> by] : f \in files}

\* the module-level logger = setup_logging("parallel", suffix="_main") of the parent
MainLog == LogFile("parallel_main", 0, 0)

\* --years: one or two years, in any order; argparse accepts a year given twice
ParYearLists == {<<y>> : y \in ParYears} \cup {<<y, z>> : y, z \in ParYears}

\* the tasks submitted to the pool, one per element of args.years
ParTasks == DOMAIN par_years

InitPar ==
    /\ par_years \in ParYearLists
    /\ par_workers \in 1..Len(par_years)
    /\ par_method \in StartMethods
    /\ par_clock = 0
    /\ par_proc = [p \in 1..par_workers |-> [task |-> 0, log |-> NumNaN]]
    /\ par_pc = [t \in ParTasks |-> "submitted"]
    /\ par_code = [t \in ParTasks |-> NumNaN]
    /\ par_ckpt \in SUBSET {par_years[t] : t \in ParTasks}
    /\ par_written = Wrote(MainProc, {MainLog})
    /\ par_results = <<>>
    /\ par_ret = NumNaN
    /\ IdleExcept("par")

\* datetime.now() moves on
Tick ==
    /\ par_clock < MaxClock
    /\ par_clock' = par_clock + 1
    /\ UNCHANGED <<par_years, par_workers, par_method, par_proc, par_pc, par_code, par_ckpt,
                   par_written, par_results, par_ret>>
    /\ UNCHANGED notPar

\* The log file of the module-level logger in pool process p: a forked process
\* inherits the parent's handler; a spawned one imports run_parallel again and
\* runs setup_logging at its own start.
ProcLog(p) ==
    IF par_method = "fork" THEN 0
    ELSE IF par_proc[p].log = NumNaN THEN par_clock ELSE par_proc[p].log

\* a pool process takes task t: run_single_year up to subprocess.run
StartTask(p, t) ==
    /\ par_pc[t] = "submitted"
    /\ par_proc[p].task = 0
    /\ par_proc' = [par_proc EXCEPT ![p] = [task |-> t, log |-> ProcLog(p)]]
    /\ par_written' = par_written \cup Wrote(t, {LogFile("parallel_main", 0, ProcLog(p))})
    /\ par_pc' = [par_pc EXCEPT ![t] = "running"]
    /\ UNCHANGED <<par_years, par_workers, par_method, par_clock, par_code, par_ckpt,
                   par_results, par_ret>>
    /\ UNCHANGED notPar

\* run_scrape.py --years y starts: the run_scrape_<y> and scraper_<y> loggers
ScrapeStart(t) ==
    /\ par_pc[t] = "running"
    /\ par_written' = par_written \cup
           Wrote(t, {LogFile("run_scrape", par_years[t], par_clock),
                     LogFile("scraper", par_years[t], par_clock)})
    /\ par_pc' = [par_pc EXCEPT ![t] = "scraping"]
    /\ UNCHANGED <<par_years, par_workers, par_method, par_clock, par_proc, par_code, par_ckpt,
                   par_results, par_ret>>
    /\ UNCHANGED notPar

\* the pool process of task t is free again
Freed(t) == [p \in DOMAIN par_proc |->
                IF par_proc[p].task = t THEN [par_proc[p] EXCEPT !.task = 0] ELSE par_proc[p]]

\* the year has a completed checkpoint: skipped, exit code 0
ScrapeSkip(t) ==
    /\ par_pc[t] = "scraping"
    /\ par_years[t] \in par_ckpt
    /\ par_code' = [par_code EXCEPT ![t] = 0]
    /\ par_pc' = [par_pc EXCEPT ![t] = "exited"]
    /\ par_proc' = Freed(t)
    /\ UNCHANGED <<par_years, par_workers, par_method, par_clock, par_ckpt, par_written,
                   par_results, par_ret>>
    /\ UNCHANGED notPar

\* the year is extracted: save_csv, save_checkpoint, exit code 0
ScrapeSave(t) ==
    /\ par_pc[t] = "scraping"
    /\ par_years[t] \notin par_ckpt
    /\ par_written' = par_written \cup
           Wrote(t, {CsvFile(par_years[t]), CheckpointFile(par_years[t])})
    /\ par_ckpt' = par_ckpt \cup {par_years[t]}
    /\ par_code' = [par_code EXCEPT ![t] = 0]
    /\ par_pc' = [par_pc EXCEPT ![t] = "exited"]
    /\ par_proc' = Freed(t)
    /\ UNCHANGED <<par_years, par_workers, par_method, par_clock, par_results, par_ret>>
    /\ UNCHANGED notPar

\* the scrape raises: nothing saved, exit code 1
ScrapeFail(t) ==
    /\ par_pc[t] = "scraping"
    /\ par_years[t] \notin par_ckpt
    /\ par_code' = [par_code EXCEPT ![t] = 1]
    /\ par_pc' = [par_pc EXCEPT ![t] = "exited"]
    /\ par_proc' = Freed(t)
    /\ UNCHANGED <<par_years, par_workers, par_method, par_clock, par_ckpt, par_written,
                   par_results, par_ret>>
    /\ UNCHANGED notPar

\* results[yr] = (code, msg): the dict is keyed by the year the worker returns
results_put(results, yr, code) ==
    [x \in DOMAIN results \cup {yr} |-> IF x = yr THEN code ELSE results[x]]

\* for future in as_completed(futures): yr, code, msg = future.result()
Collect(t) ==
    /\ par_pc[t] = "exited"
    /\ par_results' = results_put(par_results, par_years[t], par_code[t])
    /\ par_pc' = [par_pc EXCEPT ![t] = "collected"]
    /\ UNCHANGED <<par_years, par_workers, par_method, par_clock, par_proc, par_code, par_ckpt,
                   par_written, par_ret>>
    /\ UNCHANGED notPar

\* failed = sum(1 for code, _ in results.values() if code != 0)
failed(results) == Cardinality({y \in DOMAIN results : results[y] # 0})

\* the summary and the return code: return 1 if failed else 0
ParReturn ==
    /\ par_ret = NumNaN
    /\ \A t \in ParTasks : par_pc[t] = "collected"
    /\ par_ret' = IF failed(par_results) # 0 THEN 1 ELSE 0
    /\ UNCHANGED <<par_years, par_workers, par_method, par_clock, par_proc, par_pc, par_code,
                   par_ckpt, par_written, par_results>>
    /\ UNCHANGED notPar

NextPar ==
    \/ Tick
    \/ \E p \in DOMAIN par_proc, t \in ParTasks : StartTask(p, t)
    \/ \E t \in ParTasks : ScrapeStart(t)
    \/ \E t \in ParTasks : ScrapeSkip(t)
    \/ \E t \in ParTasks : ScrapeSave(t)
    \/ \E t \in ParTasks : ScrapeFail(t)
    \/ \E t \in ParTasks : Collect(t)
    \/ ParReturn

SpecPar == InitPar /\ [][NextPar]_vars

\* C7 (as claimed): the workers of distinct years share no mutable state: a
\* CSV, checkpoint or log file written by the worker of year y is written by
\* no other worker.
C7_WorkersShareNoFile ==
    \A a, b \in par_written :
        (a.file = b.file /\ a.by # MainProc /\ b.by # MainProc)
            => par_years[a.by] = par_years[b.by]

\* C17 (as claimed): when main returns, one result is recorded for every
\* launched worker, and the return code is 0 exactly when every worker exited
\* with code 0, in whatever order the workers completed.
C17_ResultPerWorkerAndReturnCode ==
    par_ret # NumNaN =>
        /\ Cardinality(DOMAIN par_results) = Len(par_years)
        /\ par_ret = 0 <=> \A t \in ParTasks : par_code[t] = 0

(***************************************************************************)
(* scraper._retry_on_failure(func), max_retries = MAX_RETRIES              *)
(***************************************************************************)
MAX_RETRIES == 3
RETRY_DELAY_BASE == 2

\* the exception classes of the except clause
CaughtExceptions == {"TimeoutException", "WebDriverException", "StaleElementReferenceException"}

\* what one call of func can do: return, or raise one of these classes
CallOutcomes == {"ok"} \cup CaughtExceptions \cup {"OtherException"}

\* an exception object: its class and the attempt that raised it
Exc(class, attempt) == [class |-> class, attempt |-> attempt]

None == [class |-> "None", attempt |-> NumNaN]

\* a backoff that grows by RETRY_DELAY_BASE each attempt
retry_delay_linear(attempt) == RETRY_DELAY_BASE * (attempt + 1)

\* delay = RETRY_DELAY_BASE * (2 ** attempt)
retry_delay(attempt) == RETRY_DELAY_BASE * (2 ^ attempt)

InitRetry ==
    /\ rt_attempt = 0
    /\ rt_calls = <<>>
    /\ rt_sleeps = <<>>
    /\ rt_last_exception = None
    /\ rt_raised = None
    /\ rt_pc = "call"
    /\ IdleExcept("retry")

\* return func(...)
CallReturns ==
    /\ rt_pc = "call"
    /\ rt_attempt < MAX_RETRIES
    /\ rt_calls' = Append(rt_calls, "ok")
    /\ rt_pc' = "returned"
    /\ UNCHANGED <<rt_attempt, rt_sleeps, rt_last_exception, rt_raised>>
    /\ UNCHANGED notRetry

\* func raises an exception of the except clause: last_exception = e
CallRaisesCaught ==
    /\ rt_pc = "call"
    /\ rt_attempt < MAX_RETRIES
    /\ \E e \in CaughtExceptions :
          /\ rt_calls' = Append(rt_calls, e)
          /\ rt_last_exception' = Exc(e, rt_attempt)
    /\ rt_pc' = "sleep"
    /\ UNCHANGED <<rt_attempt, rt_sleeps, rt_raised>>
    /\ UNCHANGED notRetry

\* func raises any other exception: it leaves _retry_on_failure at once
CallRaisesOther ==
    /\ rt_pc = "call"
    /\ rt_attempt < MAX_RETRIES
    /\ rt_calls' = Append(rt_calls, "OtherException")
    /\ rt_raised' = Exc("OtherException", rt_attempt)
    /\ rt_pc' = "raised"
    /\ UNCHANGED <<rt_attempt, rt_sleeps, rt_last_exception>>
    /\ UNCHANGED notRetry

\* time.sleep(delay), then the next pass of the loop
Sleep ==
    /\ rt_pc = "sleep"
    /\ rt_sleeps' = Append(rt_sleeps, retry_delay(rt_attempt))
    /\ rt_attempt' = rt_attempt + 1
    /\ rt_pc' = "call"
    /\ UNCHANGED <<rt_calls, rt_last_exception, rt_raised>>
    /\ UNCHANGED notRetry

\* the loop is over: raise last_exception
RaiseLast ==
    /\ rt_pc = "call"
    /\ rt_attempt = MAX_RETRIES
    /\ rt_raised' = rt_last_exception
    /\ rt_pc' = "raised"
    /\ UNCHANGED <<rt_attempt, rt_calls, rt_sleeps, rt_last_exception>>
    /\ UNCHANGED notRetry

NextRetry == CallReturns \/ CallRaisesCaught \/ CallRaisesOther \/ Sleep \/ RaiseLast

SpecRetry == InitRetry /\ [][NextRetry]_vars

RetryOver == rt_pc \in {"returned", "raised"}

\* at most MAX_RETRIES calls; nothing is called after the first success; when
\* every call failed the exception raised is the one of the last call
RetryCallsAndResult ==
    /\ Len(rt_calls) <= MAX_RETRIES
    /\ \A k \in 1..Len(rt_calls) : rt_calls[k] = "ok" => (k = Len(rt_calls) /\ rt_pc = "returned")
    /\ rt_pc = "returned" => (rt_calls # <<>> /\ rt_calls[Len(rt_calls)] = "ok")
    /\ rt_pc = "raised" =>
          /\ rt_calls # <<>>
          /\ \A k \in 1..Len(rt_calls) : rt_calls[k] # "ok"
          /\ rt_raised = Exc(rt_calls[Len(rt_calls)], Len(rt_calls) - 1)

\* C8 (as claimed): at most MAX_RETRIES calls, the first success is returned
\* without another call, RETRY_DELAY_BASE * 2^k seconds are waited after the
\* failure of attempt k, and when every attempt fails the exception of the
\* last attempt is raised.
C8_RetryBackoff ==
    /\ RetryCallsAndResult
    /\ RetryOver => \A k \in 1..Len(rt_calls) :
          rt_calls[k] # "ok" => (k <= Len(rt_sleeps) /\ rt_sleeps[k] = RETRY_DELAY_BASE * (2 ^ (k - 1)))

\* C8 (amended): as claimed, but the wait of RETRY_DELAY_BASE * 2^k seconds
\* follows only a failure of attempt k with TimeoutException,
\* WebDriverException or StaleElementReferenceException; any other exception
\* ends the calls at once, with no wait after it.
C8_RetryBackoffCaught ==
    /\ RetryCallsAndResult
    /\ RetryOver => \A k \in 1..Len(rt_calls) :
          /\ rt_calls[k] \in CaughtExceptions =>
                (k <= Len(rt_sleeps) /\ rt_sleeps[k] = RETRY_DELAY_BASE * (2 ^ (k - 1)))
          /\ rt_calls[k] \notin CaughtExceptions => (k = Len(rt_calls) /\ Len(rt_sleeps) = k - 1)

\* every attempt failed with a caught exception: three calls, waits of 2, 4 and 8
C8_Witness ==
    /\ rt_pc = "raised"
    /\ Len(rt_calls) = MAX_RETRIES
    /\ rt_sleeps = <<2, 4, 8>>
    /\ rt_raised.class \in CaughtExceptions

(***************************************************************************)
(* run_scrape.py main and scraper.run_scrape, route MUNICIPALIDADES.       *)
(* Runs follow one another on the same output and checkpoint directories.  *)
(* The text of a row's MUNICIPALIDAD cell is the sequence of its tokens of *)
(* 3 to 6 digits; a CSV holds its rows as a set.                           *)
(***************************************************************************)
ScrapeYears == {2024, 2025}

\* --years
YearLists == {<<2024>>, <<2025>>, <<2024, 2025>>}

\* --no-padron ("none"), default ("SI"), --siga-no ("NO")
SigaFilters == {"none", "SI", "NO"}

ScrapeArgs == [years : YearLists, resume : BOOLEAN, siga_filter : SigaFilters]

\* rosters written by padron_export
ScrapePadrones ==
    {padron_export(h, n) :
        h \in SUBSET {[sec_ejec |-> "101", categoria |-> CatMuni, anio |-> 2024, status |-> "SI"],
                      [sec_ejec |-> "102", categoria |-> CatMuni, anio |-> 2024, status |-> "NO"]},
        n \in SUBSET {[sec_ejec |-> "101", categoria |-> CatMuni]}}

\* the MUNICIPALIDAD cells the site can show
SiteTexts == {<<"101">>, <<"0301", "102">>}

\* padron.build_index: index[year][category], with the "_all" entry
build_index(rows, siga_filter) ==
    LET kept == {r \in rows : r.sec_ejec # "" /\ r.siga_implementado = siga_filter}
        years == {r.anio : r \in kept}
        cats(y) == {"_all"} \cup {r.categoria : r \in {k \in kept : k.anio = y /\ k.categoria # ""}}
    IN [y \in years |->
           [c \in cats(y) |->
               {r.sec_ejec : r \in {k \in kept : k.anio = y /\ (c = "_all" \/ k.categoria = c)}}]]

\* main: padron_index is None with --no-padron (the empty index here)
padron_index_of(args, rows) ==
    IF args.siga_filter = "none" THEN <<>> ELSE build_index(rows, args.siga_filter)

\* main: category = CATEGORY_BY_ROUTE[route] unless --no-padron
category_of(args) == IF args.siga_filter = "none" THEN "" ELSE CatMuni

\* sec_set of run_scrape; None and the empty set are both {} (`if sec_set:`)
sec_set_of(padron_index, category, year) ==
    IF padron_index # <<>> /\ category # ""
    THEN IF year \in DOMAIN padron_index /\ category \in DOMAIN padron_index[year]
         THEN padron_index[year][category] ELSE {}
    ELSE {}

\* the first match against the padron, else the longest token, else ""
extract_sec_ejec_from_text(text, padron_set) ==
    IF text = <<>> THEN ""
    ELSE IF padron_set # {} /\ \E i \in 1..Len(text) : text[i] \in padron_set
         THEN text[CHOOSE i \in 1..Len(text) :
                       text[i] \in padron_set /\ \A j \in 1..(i - 1) : text[j] \notin padron_set]
         ELSE text[CHOOSE i \in 1..Len(text) :
                       /\ \A j \in 1..Len(text) : Len(text[j]) <= Len(text[i])
                       /\ \A j \in 1..(i - 1) : Len(text[j]) < Len(text[i])]

\* rows of extract_data_by_year: [year] + row
site_rows(year, texts) == {[anio |-> year, text |-> t, sec |-> NaN] : t \in texts}

\* the filtering loop of run_scrape: rows whose extracted SEC_EJEC is in sec_set
filter_rows_unguarded(rows, sec_set) ==
    {[r EXCEPT !.sec = extract_sec_ejec_from_text(r.text, sec_set)] :
        r \in {x \in rows : LET sec == extract_sec_ejec_from_text(x.text, sec_set)
                            IN sec # "" /\ sec \in sec_set}}

\* run_scrape lines 449-464: rows kept and the SEC_EJEC_EXTRACTED column
filter_rows(rows, sec_set) ==
    IF sec_set # {} THEN filter_rows_unguarded(rows, sec_set) ELSE rows

\* checkpoint = load_checkpoint(route_name, year) whatever resume is
checkpoint_loaded(resume, ckpt) == ckpt

\* checkpoint = load_checkpoint(route_name, year) if resume else None
checkpoint_of(resume, ckpt) == IF resume THEN ckpt ELSE [exists |-> FALSE, completed |-> FALSE, rows |-> {}]

\* complete: the file was closed by save_csv after its last row
NoFile == [exists |-> FALSE, extracted |-> FALSE, rows |-> {}, complete |-> FALSE]
NoCheckpoint == [exists |-> FALSE, completed |-> FALSE, rows |-> {}]

Event(ev, year) == [ev |-> ev, anio |-> year]

\* a finally clause that leaves the driver open
scraper_close_skipped(closed) == closed

\* finally: scraper.close(), which quits the driver
scraper_close(closed) == closed + 1

InitScrape ==
    /\ sc_padron \in ScrapePadrones
    /\ sc_args \in ScrapeArgs
    /\ sc_csv = [y \in ScrapeYears |-> NoFile]
    /\ sc_ckpt = [y \in ScrapeYears |-> NoCheckpoint]
    /\ sc_i = 1
    /\ sc_log = <<>>
    /\ sc_closed = 0
    /\ sc_ret = NumNaN
    /\ sc_pc = "year"
    /\ IdleExcept("scrape")

CurrentYear == sc_args.years[sc_i]

\* the checkpoint of the year is completed: continue
YearSkipped ==
    /\ sc_pc = "year"
    /\ sc_i <= Len(sc_args.years)
    /\ LET checkpoint == checkpoint_of(sc_args.resume, sc_ckpt[CurrentYear])
       IN checkpoint.exists /\ checkpoint.completed
    /\ sc_log' = Append(sc_log, Event("skip", CurrentYear))
    /\ sc_i' = sc_i + 1
    /\ UNCHANGED <<sc_padron, sc_args, sc_csv, sc_ckpt, sc_closed, sc_ret, sc_pc>>
    /\ UNCHANGED notScrape

\* the year is extracted, filtered, saved and marked completed
YearScraped ==
    /\ sc_pc = "year"
    /\ sc_i <= Len(sc_args.years)
    /\ LET checkpoint == checkpoint_of(sc_args.resume, sc_ckpt[CurrentYear])
       IN ~(checkpoint.exists /\ checkpoint.completed)
    /\ \E texts \in SUBSET SiteTexts :
          LET sec_set == sec_set_of(padron_index_of(sc_args, sc_padron), category_of(sc_args), CurrentYear)
              rows == filter_rows(site_rows(CurrentYear, texts), sec_set)
          IN /\ sc_csv' = [sc_csv EXCEPT ![CurrentYear] =
                               [exists |-> TRUE, extracted |-> sec_set # {}, rows |-> rows, complete |-> TRUE]]
             /\ sc_ckpt' = [sc_ckpt EXCEPT ![CurrentYear] =
                               [exists |-> TRUE, completed |-> TRUE, rows |-> rows]]
    /\ sc_log' = sc_log \o <<Event("extract", CurrentYear), Event("save_csv", CurrentYear),
                             Event("save_checkpoint", CurrentYear)>>
    /\ sc_i' = sc_i + 1
    /\ UNCHANGED <<sc_padron, sc_args, sc_closed, sc_ret, sc_pc>>
    /\ UNCHANGED notScrape

\* extract_data_by_year raises: logged, re-raised, the driver closed; main returns 1
YearRaises ==
    /\ sc_pc = "year"
    /\ sc_i <= Len(sc_args.years)
    /\ LET checkpoint == checkpoint_of(sc_args.resume, sc_ckpt[CurrentYear])
       IN ~(checkpoint.exists /\ checkpoint.completed)
    /\ sc_log' = Append(sc_log, Event("error", CurrentYear))
    /\ sc_closed' = scraper_close(sc_closed)
    /\ sc_ret' = 1
    /\ sc_pc' = "raised"
    /\ UNCHANGED <<sc_padron, sc_args, sc_csv, sc_ckpt, sc_i>>
    /\ UNCHANGED notScrape

\* the loop is over: the driver closed, main returns 0
RunReturns ==
    /\ sc_pc = "year"
    /\ sc_i = Len(sc_args.years) + 1
    /\ sc_closed' = scraper_close(sc_closed)
    /\ sc_ret' = 0
    /\ sc_pc' = "returned"
    /\ UNCHANGED <<sc_padron, sc_args, sc_csv, sc_ckpt, sc_i, sc_log>>
    /\ UNCHANGED notScrape

\* run_scrape.py is run again
RunAgain ==
    /\ sc_pc \in {"returned", "raised"}
    /\ sc_args' \in ScrapeArgs
    /\ sc_i' = 1
    /\ sc_log' = <<>>
    /\ sc_closed' = 0
    /\ sc_ret' = NumNaN
    /\ sc_pc' = "year"
    /\ UNCHANGED <<sc_padron, sc_csv, sc_ckpt>>
    /\ UNCHANGED notScrape

NextScrape == YearSkipped \/ YearScraped \/ YearRaises \/ RunReturns \/ RunAgain

SpecScrape == InitScrape /\ [][NextScrape]_vars

\* a year of the list is about to be processed
Processing == sc_pc = "year" /\ sc_i <= Len(sc_args.years)

\* the years whose CSV the current run has saved
SavedYears == {sc_log[k].anio : k \in {j \in 1..Len(sc_log) : sc_log[j].ev = "save_csv"}}

\* C9: with resume, a year whose checkpoint is completed is not extracted and
\* its CSV and checkpoint are left as they are; without resume (--no-resume) a
\* year is never skipped: it is extracted and its CSV and checkpoint are
\* written whatever checkpoint exists (unless the extraction raises), so a run
\* that returns has rewritten the files of every requested year.
C9_ResumeSkipsCompleted ==
    [][/\ (Processing /\ sc_args.resume /\ sc_ckpt[CurrentYear].exists /\ sc_ckpt[CurrentYear].completed)
            => /\ sc_log' = Append(sc_log, Event("skip", CurrentYear))
               /\ sc_csv' = sc_csv
               /\ sc_ckpt' = sc_ckpt
       /\ (Processing /\ ~sc_args.resume)
            => \/ sc_pc' = "raised"
               \/ /\ sc_log' = sc_log \o <<Event("extract", CurrentYear), Event("save_csv", CurrentYear),
                                           Event("save_checkpoint", CurrentYear)>>
                  /\ sc_csv'[CurrentYear].exists
                  /\ sc_ckpt'[CurrentYear].exists /\ sc_ckpt'[CurrentYear].completed
                  /\ sc_ckpt'[CurrentYear].rows = sc_csv'[CurrentYear].rows
       /\ (sc_pc' = "returned" /\ ~sc_args.resume)
            => \A k \in 1..Len(sc_args.years) :
                  \E j \in 1..Len(sc_log') : sc_log'[j] = Event("save_checkpoint", sc_args.years[k])
      ]_vars

\* a run with resume that skipped a completed year and returned; both files of that year are there
C9_Witness ==
    /\ sc_pc = "returned"
    /\ sc_args.resume
    /\ \E k \in 1..Len(sc_log) :
          /\ sc_log[k].ev = "skip"
          /\ sc_csv[sc_log[k].anio].exists
          /\ sc_ckpt[sc_log[k].anio].completed

\* the padron set of a year: the roster's entities of the route's category
\* whose siga_implementado is the requested one
PadronSet(year) ==
    {r.sec_ejec : r \in {x \in sc_padron : /\ x.anio = year
                                            /\ x.categoria = CatMuni
                                            /\ x.siga_implementado = sc_args.siga_filter}}

\* C10 (as claimed): when run_scrape is called with a padron index and a
\* category, every row written to a year's CSV has an extracted SEC_EJEC that
\* belongs to the padron set of that year and category.
C10_WrittenRowsInPadron ==
    (padron_index_of(sc_args, sc_padron) # <<>> /\ category_of(sc_args) # "") =>
        \A y \in SavedYears : \A r \in sc_csv[y].rows : r.sec \in PadronSet(y)

(***************************************************************************)
(* build_panel_t1.build_groups applied to the rosters padron_export writes *)
(* from two pre-2025 years and three status values.                        *)
(***************************************************************************)
GroupHistRows ==
    [sec_ejec : SecEjec, categoria : {CatMuni}, anio : {2023, 2024}, status : {"SI", "NO", "EN PROCESO"}]

GroupPadrones ==
    {padron_export(h, n) : h \in SUBSET GroupHistRows, n \in SUBSET Nov2025Rows}

InitGroups ==
    /\ gr_padron \in GroupPadrones
    /\ gr_groups = {}
    /\ gr_pc = "build_groups"
    /\ IdleExcept("groups")

\* muni, groups = build_groups(padron)
BuildGroups ==
    /\ gr_pc = "build_groups"
    /\ gr_groups' = build_groups(gr_padron)
    /\ gr_pc' = "done"
    /\ UNCHANGED gr_padron
    /\ UNCHANGED notGroups

NextGroups == BuildGroups

SpecGroups == InitGroups /\ [][NextGroups]_vars

\* the municipal roster records of an entity in the given years with the given status
RosterRecords(se, years, status) ==
    {r \in gr_padron : /\ r.sec_ejec = se /\ r.categoria = CatMuni
                       /\ r.anio \in years /\ r.siga_implementado = status}

\* went from SIGA=NO to SIGA=SI in 2025
WentFromNoToSi(se) ==
    /\ RosterRecords(se, {2025}, "SI") # {}
    /\ RosterRecords(se, {2022, 2023, 2024}, "NO") # {}
    /\ RosterRecords(se, {2022, 2023, 2024}, "SI") = {}

\* C11: build_groups labels an entity SWITCHER, with t1_switcher = 1, exactly
\* when the entity has SIGA=SI in the 2025 roster and, in the 2022-2024
\* roster, at least one NO record and no SI record.
C11_SwitcherDefinition ==
    gr_pc = "done" =>
        /\ \A g \in gr_groups :
              /\ (g.group_t1 = "SWITCHER") <=> WentFromNoToSi(g.sec_ejec)
              /\ (g.t1_switcher = 1) <=> (g.group_t1 = "SWITCHER")
        /\ \A se \in SecEjec : WentFromNoToSi(se) => \E g \in gr_groups : g.sec_ejec = se

\* one entity labelled SWITCHER next to one with a NO and an SI record before 2025
C11_Witness ==
    /\ gr_pc = "done"
    /\ \E g \in gr_groups : g.group_t1 = "SWITCHER" /\ g.t1_switcher = 1
    /\ \E g \in gr_groups :
          /\ g.group_t1 = "ALWAYS_IN"
          /\ RosterRecords(g.sec_ejec, {2022, 2023, 2024}, "NO") # {}

(***************************************************************************)
(* utils.normalize_sec_ejec.  A str is the sequence of its characters;     *)
(* "U+0663" stands for the one character ARABIC-INDIC DIGIT THREE, a       *)
(* decimal digit outside 0-9.                                              *)
(***************************************************************************)
MaxLen == 3    \* characters of a str argument

AsciiDigits == {"0", "1", "2", "3", "4", "5", "6", "7", "8", "9"}
Whitespace == {" ", "\t"}
Chars == {"0", "7", " ", "\t", "a", "-", "U+0663"}

StrsUpTo(n) == UNION {[1..k -> Chars] : k \in 0..n}

\* the arguments: None, a str, an int
PyNone == [type |-> "NoneType", s |-> <<>>, n |-> 0]
PyStr(chars) == [type |-> "str", s |-> chars, n |-> 0]
PyInt(i) == [type |-> "int", s |-> <<>>, n |-> i]

NormalizeArgs == {PyNone} \cup {PyStr(c) : c \in StrsUpTo(MaxLen)} \cup {PyInt(i) : i \in {0 - 7, 0, 7, 70}}

DigitChar == [d \in 0..9 |-> CHOOSE c \in AsciiDigits : c = ToString(d)]

RECURSIVE nat_str(_)
nat_str(i) == IF i < 10 THEN <<DigitChar[i]>> ELSE Append(nat_str(i \div 10), DigitChar[i % 10])

\* str(value)
py_str(value) ==
    IF value.type = "str" THEN value.s
    ELSE IF value.n < 0 THEN <<"-">> \o nat_str(0 - value.n) ELSE nat_str(value.n)

\* text.strip()
RECURSIVE lstrip(_)
lstrip(text) == IF text # <<>> /\ Head(text) \in Whitespace THEN lstrip(Tail(text)) ELSE text

RECURSIVE rstrip(_)
rstrip(text) ==
    IF text # <<>> /\ text[Len(text)] \in Whitespace THEN rstrip(SubSeq(text, 1, Len(text) - 1)) ELSE text

strip(text) == rstrip(lstrip(text))

IsNotSpace(c) == c \notin Whitespace
IsAsciiDigit(c) == c \in AsciiDigits
IsDigitOrDash(c) == c \in AsciiDigits \cup {"-"}

\* re.sub(r"\s+", "", text)
remove_whitespace(text) == SelectSeq(text, IsNotSpace)

\* a pattern that lets the dash through
remove_non_digits_but_dash(text) == SelectSeq(text, IsDigitOrDash)

\* re.sub(r"[^0-9]", "", text)
remove_non_digits(text) == SelectSeq(text, IsAsciiDigit)

normalize_sec_ejec(value) ==
    IF value.type = "NoneType" THEN <<>>
    ELSE remove_non_digits(remove_whitespace(strip(py_str(value))))

InitNorm ==
    /\ nz_value \in NormalizeArgs
    /\ nz_row = <<>>
    /\ nz_sec = <<>>
    /\ nz_pc = "load_padron_csv"
    /\ IdleExcept("norm")

\* load_padron_csv: row["sec_ejec"] = normalize_sec_ejec(row.get("sec_ejec", ""))
LoadPadronCsv ==
    /\ nz_pc = "load_padron_csv"
    /\ nz_row' = normalize_sec_ejec(nz_value)
    /\ nz_pc' = "build_index"
    /\ UNCHANGED <<nz_value, nz_sec>>
    /\ UNCHANGED notNorm

\* build_index: sec = normalize_sec_ejec(row.get("sec_ejec", ""))
BuildIndex ==
    /\ nz_pc = "build_index"
    /\ nz_sec' = normalize_sec_ejec(PyStr(nz_row))
    /\ nz_pc' = "done"
    /\ UNCHANGED <<nz_value, nz_row>>
    /\ UNCHANGED notNorm

NextNorm == LoadPadronCsv \/ BuildIndex

SpecNorm == InitNorm /\ [][NextNorm]_vars

\* C12: normalize_sec_ejec returns a string made only of the digits 0-9, empty
\* for None and for input without such a digit; it keeps the digits of the
\* input in their order, leading zeros included; and applying it to its own
\* result gives the result again.
C12_NormalizeDigitsIdempotent ==
    nz_pc = "done" =>
        /\ \A k \in 1..Len(nz_row) : nz_row[k] \in AsciiDigits
        /\ nz_value.type = "NoneType" => nz_row = <<>>
        /\ nz_value.type # "NoneType" =>
              /\ Len(nz_row) = Cardinality({k \in 1..Len(py_str(nz_value)) : py_str(nz_value)[k] \in AsciiDigits})
              /\ \E f \in [1..Len(nz_row) -> 1..Len(py_str(nz_value))] :
                    /\ \A k \in 1..Len(nz_row) : py_str(nz_value)[f[k]] = nz_row[k]
                    /\ \A j, k \in 1..Len(nz_row) : j < k => f[j] < f[k]
        /\ nz_sec = nz_row

\* the cell "0-7": "07", the leading zero kept, and "07" again in build_index
C12_Witness ==
    /\ nz_pc = "done"
    /\ nz_value = PyStr(<<"0", "-", "7">>)
    /\ nz_row = <<"0", "7">>
    /\ nz_sec = <<"0", "7">>

(***************************************************************************)
(* run_scrape when the process can be killed (power cut, kill -9) while a  *)
(* year is processed: nothing of the except and finally clauses runs.      *)
(***************************************************************************)
NotSkipped ==
    LET checkpoint == checkpoint_of(sc_args.resume, sc_ckpt[CurrentYear])
    IN ~(checkpoint.exists /\ checkpoint.completed)

\* killed during extract_data_by_year: no file is touched
KilledInExtract ==
    /\ Processing /\ NotSkipped
    /\ sc_pc' = "killed"
    /\ UNCHANGED <<sc_padron, sc_args, sc_csv, sc_ckpt, sc_i, sc_log, sc_closed, sc_ret>>
    /\ UNCHANGED notScrape

\* killed inside save_csv: path.open("w") has truncated the file and no row
\* has reached it yet
KilledInSaveCsv ==
    /\ Processing /\ NotSkipped
    /\ \E texts \in SUBSET SiteTexts :
          LET sec_set == sec_set_of(padron_index_of(sc_args, sc_padron), category_of(sc_args), CurrentYear)
              rows == filter_rows(site_rows(CurrentYear, texts), sec_set)
          IN sc_csv' = [sc_csv EXCEPT ![CurrentYear] =
                           [exists |-> TRUE, extracted |-> sec_set # {}, rows |-> {},
                            complete |-> FALSE]]
    /\ sc_log' = Append(sc_log, Event("extract", CurrentYear))
    /\ sc_pc' = "killed"
    /\ UNCHANGED <<sc_padron, sc_args, sc_ckpt, sc_i, sc_closed, sc_ret>>
    /\ UNCHANGED notScrape

\* killed after save_csv has returned and before save_checkpoint
KilledBeforeCheckpoint ==
    /\ Processing /\ NotSkipped
    /\ \E texts \in SUBSET SiteTexts :
          LET sec_set == sec_set_of(padron_index_of(sc_args, sc_padron), category_of(sc_args), CurrentYear)
              rows == filter_rows(site_rows(CurrentYear, texts), sec_set)
          IN sc_csv' = [sc_csv EXCEPT ![CurrentYear] =
                           [exists |-> TRUE, extracted |-> sec_set # {}, rows |-> rows,
                            complete |-> TRUE]]
    /\ sc_log' = sc_log \o <<Event("extract", CurrentYear), Event("save_csv", CurrentYear)>>
    /\ sc_pc' = "killed"
    /\ UNCHANGED <<sc_padron, sc_args, sc_ckpt, sc_i, sc_closed, sc_ret>>
    /\ UNCHANGED notScrape

\* run_scrape.py is run again after a kill
RunAfterKill ==
    /\ sc_pc = "killed"
    /\ sc_args' \in ScrapeArgs
    /\ sc_i' = 1
    /\ sc_log' = <<>>
    /\ sc_closed' = 0
    /\ sc_ret' = NumNaN
    /\ sc_pc' = "year"
    /\ UNCHANGED <<sc_padron, sc_csv, sc_ckpt>>
    /\ UNCHANGED notScrape

NextCrash ==
    \/ NextScrape
    \/ KilledInExtract \/ KilledInSaveCsv \/ KilledBeforeCheckpoint
    \/ RunAfterKill

\* the runs with kills are followed on one roster: 101 SI and 102 NO in 2024, 101 in 2025
InitCrash ==
    /\ InitScrape
    /\ \A p \in ScrapePadrones : Cardinality(p) <= Cardinality(sc_padron)

SpecCrash == InitCrash /\ [][NextCrash]_vars

\* C13 (as claimed): in every reachable state, across runs and kills, a
\* checkpoint marked completed for a year exists only if that year's CSV was
\* completely written by a finished extraction.
C13_CompletedOnlyWithFullCsv ==
    \A y \in ScrapeYears :
        (sc_ckpt[y].exists /\ sc_ckpt[y].completed) =>
            (sc_csv[y].exists /\ sc_csv[y].complete)

\* the CSV of a year is what a run with the current arguments writes for some
\* content of the site: filtered by the year's sec_set when there is one,
\* unfiltered and without the SEC_EJEC_EXTRACTED column otherwise
ReflectsRequestedFilter(y) ==
    LET sec_set == sec_set_of(padron_index_of(sc_args, sc_padron), category_of(sc_args), y)
    IN /\ sc_csv[y].exists
       /\ sc_csv[y].extracted = (sec_set # {})
       /\ sec_set # {} => \A r \in sc_csv[y].rows : r.sec \in sec_set

\* C14 (as claimed): with resume, a year is skipped only if an earlier run
\* completed it with the same filter, so when run_scrape returns normally the
\* output directory holds, for every requested year, a CSV that reflects the
\* requested filter.
C14_ReturnedCsvReflectsFilter ==
    (sc_pc = "returned" /\ sc_args.resume) =>
        \A k \in 1..Len(sc_args.years) : ReflectsRequestedFilter(sc_args.years[k])

(***************************************************************************)
(* Scraper.navigate_levels on a level with a list_xpath and a next_level.  *)
(* The pass of the loop for element i is one step; the call for the next   *)
(* level returns the rows <<i>> or raises.                                 *)
(***************************************************************************)
MaxElems == 3    \* elements of the list (after max_items)

\* where the try block of a pass can raise
RaisePoints == {"before_click", "in_next_level", "in_back", "after_back"}

\* the passes in which the next level has returned its rows
NextLevelReturned(point) == point \in {"none", "in_back", "after_back"}

\* the passes in which the try block has called self.driver.back()
TryBackAttempted(point) == point \in {"none", "in_back", "after_back"}

\* a handler that gives the loop up
index_after_error_break(i, limit) == limit

\* `continue` at the end of the handler
index_after_error(i, limit) == i + 1

InitNav ==
    /\ nv_limit \in 0..MaxElems
    /\ nv_i = 0
    /\ nv_extracted = <<>>
    /\ nv_trace = <<>>
    /\ nv_errors = <<>>
    /\ nv_pc = "loop"
    /\ IdleExcept("nav")

\* a pass of `for i in range(limit)` in which nothing raises
ElementDone ==
    /\ nv_pc = "loop"
    /\ nv_i < nv_limit
    /\ nv_extracted' = Append(nv_extracted, nv_i)
    /\ nv_trace' = Append(nv_trace, [i |-> nv_i, raised |-> "none", try_back |-> 1, handler_back |-> 0,
                                     recovered |-> TRUE])
    /\ nv_i' = nv_i + 1
    /\ UNCHANGED <<nv_limit, nv_errors, nv_pc>>
    /\ UNCHANGED notNav

\* a pass in which the try block raises an Exception: logger.error, one
\* self.driver.back() in the handler (its own failure is passed over), continue
ElementRaises ==
    /\ nv_pc = "loop"
    /\ nv_i < nv_limit
    /\ \E point \in RaisePoints, back_ok \in BOOLEAN :
          /\ nv_extracted' = IF NextLevelReturned(point) THEN Append(nv_extracted, nv_i) ELSE nv_extracted
          /\ nv_trace' = Append(nv_trace, [i |-> nv_i, raised |-> point,
                                           try_back |-> IF TryBackAttempted(point) THEN 1 ELSE 0,
                                           handler_back |-> 1, recovered |-> back_ok])
    /\ nv_errors' = Append(nv_errors, nv_i)
    /\ nv_i' = index_after_error(nv_i, nv_limit)
    /\ UNCHANGED <<nv_limit, nv_pc>>
    /\ UNCHANGED notNav

\* return extracted
NavReturns ==
    /\ nv_pc = "loop"
    /\ nv_i >= nv_limit
    /\ nv_pc' = "returned"
    /\ UNCHANGED <<nv_limit, nv_i, nv_extracted, nv_trace, nv_errors>>
    /\ UNCHANGED notNav

NextNav == ElementDone \/ ElementRaises \/ NavReturns

SpecNav == InitNav /\ [][NextNav]_vars

ErrorLogged(i) == \E k \in 1..Len(nv_errors) : nv_errors[k] = i
RowsOf(i) == Cardinality({k \in 1..Len(nv_extracted) : nv_extracted[k] = i})

\* C15: an exception raised while element i of a list level is processed is
\* caught and logged, one back-navigation is attempted by the handler, and
\* the loop goes on with element i+1: every element up to the limit gets its
\* pass, the rows of the elements whose next level returned are in the list
\* that is returned, and the call returns.
C15_LogAndContinue ==
    /\ nv_pc \in {"loop", "returned"}
    /\ Len(nv_trace) = nv_i
    /\ \A k \in 1..Len(nv_trace) :
          /\ nv_trace[k].i = k - 1
          /\ nv_trace[k].raised # "none" => (ErrorLogged(k - 1) /\ nv_trace[k].handler_back = 1)
          /\ nv_trace[k].raised = "none" => (~ErrorLogged(k - 1) /\ nv_trace[k].handler_back = 0)
          /\ RowsOf(k - 1) = IF NextLevelReturned(nv_trace[k].raised) THEN 1 ELSE 0
    /\ nv_pc = "returned" => nv_i = nv_limit

\* element 0 raised in its next level, the handler's back failed too, and
\* elements 1 and 2 were still processed and their rows returned
C15_Witness ==
    /\ nv_pc = "returned"
    /\ nv_limit = 3
    /\ nv_trace[1].raised = "in_next_level" /\ ~nv_trace[1].recovered
    /\ nv_extracted = <<1, 2>>

\* the years of the list before position i were skipped or saved, and nothing
\* is logged for a later position
OnlyYearsBefore(i, log) ==
    \A k \in 1..Len(log) :
        log[k].ev # "error" => \E j \in 1..(i - 1) : sc_args.years[j] = log[k].anio

\* C16: when a year's scrape raises, the exception reaches the caller (main
\* returns 1), no later year is processed, the CSVs and checkpoints are left
\* as the earlier years of the run wrote them, and the driver is closed
\* exactly once; when the run succeeds the driver is closed exactly once too.
C16_RaiseStopsRunAndClosesDriver ==
    [][/\ sc_pc' = "raised" =>
            /\ sc_pc = "year"
            /\ sc_closed' = 1 /\ sc_ret' = 1
            /\ sc_csv' = sc_csv /\ sc_ckpt' = sc_ckpt
            /\ sc_log' = Append(sc_log, Event("error", CurrentYear))
            /\ OnlyYearsBefore(sc_i, sc_log)
            /\ \A y \in SavedYears : sc_csv[y].complete /\ sc_ckpt[y].completed
       /\ sc_pc = "raised" => (sc_pc' = "year" /\ sc_log' = <<>> /\ sc_closed' = 0)
       /\ sc_pc' = "returned" => (sc_closed' = 1 /\ sc_ret' = 0)
       /\ sc_pc' = "year" => sc_closed' = 0
      ]_vars

\* 2024 was saved, then the scrape of 2025 raised: the driver closed once, the files of 2024 in place
C16_Witness ==
    /\ sc_pc = "raised"
    /\ sc_closed = 1
    /\ sc_args.years = <<2024, 2025>>
    /\ sc_log = <<Event("extract", 2024), Event("save_csv", 2024), Event("save_checkpoint", 2024),
                  Event("error", 2025)>>
    /\ sc_csv[2024].complete /\ sc_ckpt[2024].completed

(***************************************************************************)
(* nearest_neighbor_matching of run_did_psm.py.  pscore_df has one row per *)
(* entity (get_baseline_characteristics drops duplicate sec_ejec); a row   *)
(* is known by its index label, its position here.  Propensity scores and  *)
(* the caliper are counted in the same unit (tenths).                      *)
(***************************************************************************)
MaxRows == 4

PScores == {0, 1, 2}

Calipers == {0, 1}

PscoreFrames ==
    UNION {[1..n -> [switcher : {0, 1}, pscore : PScores]] : n \in 0..MaxRows}

\* pscore_df[pscore_df["switcher"] == s]: the index labels kept, in input order
rows_with(df, s) ==
    LET F[k \in 0..Len(df)] ==
            IF k = 0 THEN <<>>
            ELSE IF df[k].switcher = s THEN Append(F[k - 1], k) ELSE F[k - 1]
    IN F[Len(df)]

treated(df) == rows_with(df, 1)

control(df) == rows_with(df, 0)

\* cdist(treated_ps, control_ps, metric="euclidean")[i, :] on one-column points
cdist_row(df, i) == [j \in 1..Len(control(df)) |->
                        Abs(df[treated(df)[i]].pscore - df[control(df)[j]].pscore)]

\* an order of the columns that looks at them as they come
argsort_unsorted(dists) ==
    {p \in [1..Len(dists) -> 1..Len(dists)] : \A a, b \in 1..Len(dists) : a # b => p[a] # p[b]}

\* np.argsort(dists): the columns by increasing distance; the default sort is
\* not stable, so equal distances come in any order
argsort(dists) ==
    {p \in [1..Len(dists) -> 1..Len(dists)] :
        /\ \A a, b \in 1..Len(dists) : a # b => p[a] # p[b]
        /\ \A a, b \in 1..Len(dists) : a < b => dists[p[a]] <= dists[p[b]]}

\* every control is free to be matched again
not_used_with_replacement(c_idx, control_used) == TRUE

\* c_idx not in control_used
not_used(c_idx, control_used) == c_idx \notin control_used

\* for j in sorted_indices: the first column that passes the test, 0 when the loop ends without a break
first_match(df, sorted_indices, dists, control_used, caliper) ==
    LET ok == {k \in 1..Len(sorted_indices) :
                  /\ not_used(control(df)[sorted_indices[k]], control_used)
                  /\ dists[sorted_indices[k]] <= caliper}
    IN IF ok = {} THEN 0
       ELSE sorted_indices[CHOOSE k \in ok : \A m \in ok : k <= m]

InitMatch ==
    /\ mt_df \in PscoreFrames
    /\ mt_caliper \in Calipers
    /\ mt_i = 1
    /\ mt_pairs = <<>>
    /\ mt_used = {}
    /\ mt_pc = "matching"
    /\ IdleExcept("match")

\* if treated.empty or control.empty: return pd.DataFrame()
MatchEmpty ==
    /\ mt_pc = "matching"
    /\ treated(mt_df) = <<>> \/ control(mt_df) = <<>>
    /\ mt_pc' = "returned"
    /\ UNCHANGED <<mt_df, mt_caliper, mt_i, mt_pairs, mt_used>>
    /\ UNCHANGED notMatch

\* one round of for i, t_idx in enumerate(treated.index)
MatchTreated ==
    /\ mt_pc = "matching"
    /\ treated(mt_df) # <<>> /\ control(mt_df) # <<>>
    /\ mt_i <= Len(treated(mt_df))
    /\ \E sorted_indices \in argsort(cdist_row(mt_df, mt_i)) :
          LET dists == cdist_row(mt_df, mt_i)
              j == first_match(mt_df, sorted_indices, dists, mt_used, mt_caliper)
          IN IF j = 0
             THEN UNCHANGED <<mt_pairs, mt_used>>
             ELSE /\ mt_pairs' = Append(mt_pairs,
                        [treated_sec_ejec |-> treated(mt_df)[mt_i],
                         control_sec_ejec |-> control(mt_df)[j],
                         distance |-> dists[j]])
                  /\ mt_used' = mt_used \cup {control(mt_df)[j]}
    /\ mt_i' = mt_i + 1
    /\ UNCHANGED <<mt_df, mt_caliper, mt_pc>>
    /\ UNCHANGED notMatch

\* return pd.DataFrame(matched_pairs)
MatchReturns ==
    /\ mt_pc = "matching"
    /\ treated(mt_df) # <<>> /\ control(mt_df) # <<>>
    /\ mt_i = Len(treated(mt_df)) + 1
    /\ mt_pc' = "returned"
    /\ UNCHANGED <<mt_df, mt_caliper, mt_i, mt_pairs, mt_used>>
    /\ UNCHANGED notMatch

NextMatch == MatchEmpty \/ MatchTreated \/ MatchReturns

SpecMatch == InitMatch /\ [][NextMatch]_vars

\* the propensity-score distance between two entities of the frame
PsDistance(t, c) == Abs(mt_df[t].pscore - mt_df[c].pscore)

\* C18: in the pairs returned, every treated entity (switcher = 1) is in at
\* most one pair, every control entity (switcher = 0) is in at most one pair,
\* and each pair's propensity-score distance is at most the caliper.
C18_OneToOneWithinCaliper ==
    mt_pc = "returned" =>
        /\ \A a, b \in 1..Len(mt_pairs) :
              a # b => /\ mt_pairs[a].treated_sec_ejec # mt_pairs[b].treated_sec_ejec
                       /\ mt_pairs[a].control_sec_ejec # mt_pairs[b].control_sec_ejec
        /\ \A a \in 1..Len(mt_pairs) :
              /\ mt_df[mt_pairs[a].treated_sec_ejec].switcher = 1
              /\ mt_df[mt_pairs[a].control_sec_ejec].switcher = 0
              /\ mt_pairs[a].distance
                     = PsDistance(mt_pairs[a].treated_sec_ejec, mt_pairs[a].control_sec_ejec)
              /\ mt_pairs[a].distance <= mt_caliper

\* two treated entities compete for the same nearest control; both end up in one pair each
C18_Witness ==
    /\ mt_pc = "returned"
    /\ Len(mt_pairs) = 2
    /\ \E t1, t2 \in 1..Len(mt_df), c \in 1..Len(mt_df) :
          /\ t1 # t2 /\ mt_df[t1].switcher = 1 /\ mt_df[t2].switcher = 1 /\ mt_df[c].switcher = 0
          /\ PsDistance(t1, c) = 0 /\ PsDistance(t2, c) = 0

\* the controls taken by the treated entities that come before t in the input
UsedBefore(t) ==
    {mt_pairs[a].control_sec_ejec : a \in {b \in 1..Len(mt_pairs) : mt_pairs[b].treated_sec_ejec < t}}

\* the controls not yet used when t is processed that lie within the caliper of t
FreeWithin(t) ==
    {c \in 1..Len(mt_df) :
        mt_df[c].switcher = 0 /\ c \notin UsedBefore(t) /\ PsDistance(t, c) <= mt_caliper}

\* C19: with the treated entities processed in input order, each one is
\* paired with the not-yet-used control of smallest propensity-score distance
\* when that distance is at most the caliper, and is left unmatched exactly
\* when no unused control lies within the caliper.
C19_GreedyNearestUnused ==
    mt_pc = "returned" =>
        /\ \A a, b \in 1..Len(mt_pairs) :
              a < b => mt_pairs[a].treated_sec_ejec < mt_pairs[b].treated_sec_ejec
        /\ \A t \in 1..Len(mt_df) :
              mt_df[t].switcher = 1 =>
                 LET mine == {a \in 1..Len(mt_pairs) : mt_pairs[a].treated_sec_ejec = t}
                 IN /\ (mine = {}) <=> (FreeWithin(t) = {})
                    /\ \A a \in mine :
                          /\ mt_pairs[a].control_sec_ejec \in FreeWithin(t)
                          /\ \A c \in FreeWithin(t) :
                                PsDistance(t, mt_pairs[a].control_sec_ejec) <= PsDistance(t, c)

\* a treated entity whose nearest control was taken by an earlier treated
\* entity is paired with a farther control that is still free and within the caliper
C19_Witness ==
    /\ mt_pc = "returned"
    /\ \E a \in 1..Len(mt_pairs) : \E c \in UsedBefore(mt_pairs[a].treated_sec_ejec) :
          PsDistance(mt_pairs[a].treated_sec_ejec, c) < mt_pairs[a].distance

(***************************************************************************)
(* run_oaxaca_blinder.main: panel = build_panel(base_dir), then            *)
(* multi = multi_year_aggregate(panel), whose table the report prints with *)
(* a note on the periods before 2025.  The inputs are the roster, the      *)
(* budget panel (SI and NO files of 2022-2024) and the CMN table.          *)
(***************************************************************************)
MultiYears == {2023, 2024}

\* rosters of municipalities: per entity a 2024 status or none, and in the 2025 roster or not
MultiPadrones ==
    {padron_export(h, n) :
        h \in {x \in SUBSET [sec_ejec : SecEjec, categoria : {CatMuni}, anio : {2024},
                             status : {"SI", "NO"}] :
                  \A a, b \in x : a.sec_ejec = b.sec_ejec => a = b},
        n \in SUBSET [sec_ejec : SecEjec, categoria : {CatMuni}]}

\* presupuesto_muni_panel.parquet: at most one row per (sec_ejec, anio), from a SI or a NO file
MultiBudgets ==
    {budget_main([r \in raw |-> 1]) :
        raw \in {x \in SUBSET [siga : {"SI", "NO"}, anio : MultiYears, sec_ejec : SecEjec] :
                    \A a, b \in x : (a.sec_ejec = b.sec_ejec /\ a.anio = b.anio) => a = b}}

\* cmn_cumple_v4.parquet: one row per (sec_ejec, anio)
MultiCmnTables ==
    {{[sec_ejec |-> k[1], anio |-> k[2], cumple_v4 |-> IF k \in ones THEN 1 ELSE 0] :
         k \in SecEjec \X MultiYears} : ones \in SUBSET (SecEjec \X MultiYears)}

\* the two continue tests of a round of for base_year in [2022, 2023, 2024]
multi_year_skips(panel, base_year) ==
    \/ base_year + 1 > 2025
    \/ Sel(panel, base_year, "ALWAYS_IN") = {}
    \/ Sel(panel, base_year + 1, "ALWAYS_IN") = {}

\* the row a round appends to results
multi_year_row(panel, base_year) ==
    LET target_year == base_year + 1
        a_base == Sel(panel, base_year, "ALWAYS_IN")
        a_target == Sel(panel, target_year, "ALWAYS_IN")
        e_target == Sel(panel, target_year, "ENTRY")
        r_base == MeanOf(panel, a_base)
        r_target == MeanOf(panel, a_target)
        r_entry == IF LenOf(panel, e_target) > 0 THEN MeanOf(panel, e_target) ELSE FNaN
        n_a == LenOf(panel, a_target)
        n_e == IF LenOf(panel, e_target) > 0 THEN LenOf(panel, e_target) ELSE 0
        n_total == n_a + n_e
        w_a == IF n_total > 0 THEN Rat(n_a, n_total) ELSE FInt(1)
        w_e == IF n_total > 0 THEN Rat(n_e, n_total) ELSE FInt(0)
        delta_behavior == FMul(w_a, FSub(r_target, r_base))
        delta_composition == IF ~IsNaN(r_entry) THEN FMul(w_e, FSub(r_entry, r_base)) ELSE FInt(0)
        delta_total == FAdd(delta_behavior, delta_composition)
    IN [base_year |-> base_year, target_year |-> target_year,
        r_base |-> r_base, r_target_AI |-> r_target, r_target_ENTRY |-> r_entry,
        n_AI |-> n_a, n_ENTRY |-> n_e,
        delta_total_pp |-> FMul(delta_total, FInt(100)),
        delta_behavior_pp |-> FMul(delta_behavior, FInt(100)),
        delta_composition_pp |-> FMul(delta_composition, FInt(100))]

\* the rows appended to results, in the order of the loop
multi_year_aggregate(panel) ==
    LET F[k \in 0..3] ==
            IF k = 0 THEN <<>>
            ELSE IF multi_year_skips(panel, 2021 + k) THEN F[k - 1]
            ELSE Append(F[k - 1], multi_year_row(panel, 2021 + k))
    IN F[3]

InitMulti ==
    /\ my_padron \in MultiPadrones
    /\ my_budget \in MultiBudgets
    /\ my_cmn \in MultiCmnTables
    /\ my_panel = <<>>
    /\ my_multi = <<>>
    /\ my_pc = "build_panel"
    /\ IdleExcept("multi")

\* main: panel = build_panel(base_dir)
MultiBuildPanel ==
    /\ my_pc = "build_panel"
    /\ my_panel' = oaxaca_build_panel(my_budget, my_cmn, my_padron)
    /\ my_pc' = "multi"
    /\ UNCHANGED <<my_padron, my_budget, my_cmn, my_multi>>
    /\ UNCHANGED notMulti

\* main: multi = multi_year_aggregate(panel), written to multi_year_decomposition.csv and to the report
MultiYearAggregate ==
    /\ my_pc = "multi"
    /\ my_multi' = multi_year_aggregate(my_panel)
    /\ my_pc' = "report"
    /\ UNCHANGED <<my_padron, my_budget, my_cmn, my_panel>>
    /\ UNCHANGED notMulti

NextMulti == MultiBuildPanel \/ MultiYearAggregate

SpecMulti == InitMulti /\ [][NextMulti]_vars

\* C20 (as claimed): the rows of the periods 2022->2023 and 2023->2024 have
\* n_ENTRY = 0 and delta_composition_pp = 0, so that delta_total_pp equals
\* delta_behavior_pp.
C20_NoEntryBefore2025 ==
    my_pc = "report" =>
        \A k \in 1..Len(my_multi) :
            my_multi[k].target_year <= 2024 =>
                /\ my_multi[k].n_ENTRY = 0
                /\ my_multi[k].delta_composition_pp = FInt(0)
                /\ my_multi[k].delta_total_pp = my_multi[k].delta_behavior_pp

\* how many times the entity was drawn in the sample
TimesDrawn(sample, se) == Cardinality({i \in DOMAIN sample : sample[i] = se})

\* how many rows of the entity the frame holds
RowsOfEntity(df, se) == Cardinality({r \in df : r.sec_ejec = se})

\* C21 (as claimed): in each bootstrap replicate an entity drawn k times in
\* the resample of a year contributes its observations of that year k times
\* to the frame on which the decomposition is recomputed.
C21_DrawnKTimesCountsKTimes ==
    bt_draw # <<>> =>
        /\ \A se \in boot_entities(df_24) :
              RowsOfEntity(bt_draw.boot_24, se)
                  = TimesDrawn(bt_draw.sample_ents_24, se) * RowsOfEntity(df_24, se)
        /\ \A se \in boot_entities(df_25) :
              RowsOfEntity(bt_draw.boot_25, se)
                  = TimesDrawn(bt_draw.sample_ents_25, se) * RowsOfEntity(df_25, se)

(***************************************************************************)
(* run_oaxaca_blinder.main runs both decompositions on the same panel:     *)
(* agg = aggregate_decomposition(panel), then                              *)
(* multi = multi_year_aggregate(panel).                                    *)
(***************************************************************************)
\* main: multi = multi_year_aggregate(panel), after the aggregate decomposition returned
MultiAfterAggregate ==
    /\ ob_pc = "done"
    /\ ob_multi' = multi_year_aggregate(ob_panel)
    /\ ob_pc' = "multi_done"
    /\ UNCHANGED <<ob_panel, ob_agg>>
    /\ UNCHANGED notOb

NextBoth == AggregateDecomposition \/ AggregateDecompositionRaises \/ MultiAfterAggregate

SpecBoth == InitOb /\ [][NextBoth]_vars

\* C22 (as claimed): the row of the period 2024->2025 in the table of
\* multi_year_aggregate carries the same delta_total_pp, delta_behavior_pp and
\* delta_composition_pp as the dict of aggregate_decomposition, on every
\* panel, those without an ENTRY observation in 2025 included.
C22_SamePeriodSameDeltas ==
    ob_pc = "multi_done" =>
        \A k \in 1..Len(ob_multi) :
            ob_multi[k].base_year = 2024 =>
                /\ ob_multi[k].delta_total_pp = ob_agg.delta_total_pp
                /\ ob_multi[k].delta_behavior_pp = ob_agg.delta_behavior_pp
                /\ ob_multi[k].delta_composition_pp = ob_agg.delta_composition_pp

====
